---- MODULE Spec2Model ----
(***************************************************************************)
(* Try<T> and Option<T> of func-typescript: lazy step chains over a        *)
(* mutable Result carrier, executed by the execution methods.              *)
(*                                                                         *)
(* A Try / Option instance is a record holding its step list and its       *)
(* cache.  A step is a record naming the step function (map, recover, ...) *)
(* and the user callbacks it closes over.  An execution-method call is a   *)
(* frame in `tasks`: it runs one step per action (every step is awaited),  *)
(* then stores the cache and settles.                                      *)
(***************************************************************************)
EXTENDS Integers, Sequences, FiniteSets, TLC

VARIABLES
    tries,    \* the Try instances created so far
    options,  \* the Option instances created so far
    tasks,    \* the execution-method calls in flight
    mul,      \* the outer variable the test closure v => v * mul reads and writes
    log,      \* the settled calls of the caller, oldest first
    lastOp,   \* the step the last action ran, if it ran one
    bound     \* the bounds of the run: instances, steps of a chain, calls

vars == <<tries, options, tasks, mul, log, lastOp, bound>>

----------------------------------------------------------------------------
(* Bounds of the model *)

MaxTries == 2
MaxSteps == 2
MaxCalls == 3

----------------------------------------------------------------------------
(* JavaScript values: t is the type (for an Error object, its name), n the  *)
(* number, the truth value or the identity of the object.                   *)

Undefined == [t |-> "undefined", n |-> 0]
Null == [t |-> "null", n |-> 0]
NaN == [t |-> "NaN", n |-> 0]
Num(k) == [t |-> "number", n |-> k]
Bool(b) == [t |-> "boolean", n |-> IF b THEN 1 ELSE 0]
Err(k) == [t |-> "Error", n |-> k]
CustomException(k) == [t |-> "CustomException", n |-> k]

\* v == undefined, v == null (loose equality)
IsNullish(v) == v.t \in {"undefined", "null"}

\* !v
Falsy(v) ==
    \/ IsNullish(v)
    \/ v.t = "NaN"
    \/ v.t = "number" /\ v.n = 0
    \/ v.t = "boolean" /\ v.n = 0

\* v * m
Times(v, m) == IF v.t = "number" THEN Num(v.n * m) ELSE NaN

----------------------------------------------------------------------------
(* Result carrier *)

NewResult == [value |-> Undefined, error |-> Undefined]
setValue(r, v) == [r EXCEPT !.value = v]
getValue(r) == r.value
setError(r, e) == [r EXCEPT !.error = e]
getError(r) == r.error
isError(r) == ~IsNullish(r.error)
\* hasvalue that looks at the value slot
hasvalue_byValue(r) == ~IsNullish(r.value)

hasvalue(r) == IsNullish(r.error)

----------------------------------------------------------------------------
(* User callbacks.  A callback is a record: k says what the function does  *)
(* when it is called, v is the value it returns, throws or rejects with.   *)

NoCb == [k |-> "none", v |-> Undefined]
Const(v) == [k |-> "const", v |-> v]
Throw(e) == [k |-> "throw", v |-> e]
Resolve(v) == [k |-> "resolve", v |-> v]
Reject(e) == [k |-> "reject", v |-> e]
\* v => { const result = v * multiplier; multiplier = 3; return result; }
MulOuter == [k |-> "mulOuter", v |-> Undefined]
\* (...values) => values
Args == [k |-> "args", v |-> Undefined]

\* A settled promise, and the promise as a value
Resolved(v) == [ok |-> TRUE, v |-> v]
Rejected(e) == [ok |-> FALSE, v |-> e]
PromiseOf(s) == [t |-> "Promise", n |-> 0, ok |-> s.ok, val |-> s.v]

\* await x
Await(x) == IF x.t = "Promise" THEN [ok |-> x.ok, v |-> x.val] ELSE Resolved(x)

\* cb(arg), with the outer variable at m: thrown says that the call threw v,
\* otherwise v is what it returned (a promise, for an async callback).
CallRaw(cb, arg, m) ==
    CASE cb.k = "mulOuter" -> [thrown |-> FALSE, v |-> Times(arg, m), mul |-> 3]
      [] cb.k = "const" -> [thrown |-> FALSE, v |-> cb.v, mul |-> m]
      [] cb.k = "args" -> [thrown |-> FALSE, v |-> arg, mul |-> m]
      [] cb.k = "resolve" -> [thrown |-> FALSE, v |-> PromiseOf(Resolved(cb.v)), mul |-> m]
      [] cb.k = "reject" -> [thrown |-> FALSE, v |-> PromiseOf(Rejected(cb.v)), mul |-> m]
      [] cb.k = "throw" -> [thrown |-> TRUE, v |-> cb.v, mul |-> m]

\* await cb(arg): ok is FALSE when the call throws or its promise rejects,
\* v is the value returned or raised.
CallCb(cb, arg, m) ==
    LET r == CallRaw(cb, arg, m)
    IN  IF r.thrown
        THEN [ok |-> FALSE, v |-> r.v, mul |-> r.mul]
        ELSE [ok |-> Await(r.v).ok, v |-> Await(r.v).v, mul |-> r.mul]

----------------------------------------------------------------------------
(* Steps and instances *)

Step(op, f, g) == [op |-> op, f |-> f, g |-> g, et |-> "", ins |-> <<>>, par |-> FALSE]

Zeros(n) == [k \in 1..n |-> 0]

\* new Try(steps): the cache is empty.  stepRuns[k] and cbRuns[k] count the
\* invocations of step k and of its callbacks by executions of this instance.
NewTry(steps) ==
    [steps |-> steps, isComputed |-> FALSE, finalResult |-> <<>>,
     stepRuns |-> Zeros(Len(steps)), cbRuns |-> Zeros(Len(steps))]

\* A Try object as a value: n is its index in tries, or 0 for an instance the
\* callback has just created, which then carries its steps.
TryRef(i) == [t |-> "Try", n |-> i]
FreshTry(steps) == [t |-> "Try", n |-> 0, steps |-> steps]

\* new NoSuchElementException(message), the message being text, or text
\* followed by the value v
NoSuchElementException(text, v) ==
    [t |-> "NoSuchElementException", n |-> 0, message |-> text, about |-> v]

----------------------------------------------------------------------------
(* runInTry: body is what the wrapped function did to prev before it       *)
(* returned (ok) or threw err.                                             *)

Done(res) == [ok |-> TRUE, res |-> res, err |-> Undefined]
Thrown(res, e) == [ok |-> FALSE, res |-> res, err |-> e]

runInTry(body) ==
    IF body.ok
    THEN [success |-> TRUE, res |-> body.res]
    ELSE [success |-> FALSE, res |-> setError(body.res, body.err)]

\* What a step hands back: the Result, the outer variable, the number of
\* callbacks it invoked, what its callback raised (<<>> if nothing), the
\* exception that escaped the step (<<>> if none) and the instance of tries
\* that the step has executed (<<>> if none).
Out(res, m, calls, raised) ==
    [res |-> res, mul |-> m, calls |-> calls, raised |-> raised, esc |-> <<>>,
     nested |-> <<>>]

Raised(c) == IF c.ok THEN <<>> ELSE <<c.v>>

----------------------------------------------------------------------------
(* Execution methods of Try.  Each is given the instance, the instance as  *)
(* a value (self), the method's argument, the Result fr that runSteps      *)
(* returned and the outer variable, and yields                             *)
(*   cached: the settlement of the early return, <<>> when the method      *)
(*           goes on to run the steps;                                     *)
(*   store:  the instance after the method has stored fr;                  *)
(*   settle: the settlement after the run.                                 *)
(* A settlement is [ok, v, mul, calls]: resolved with v or rejected with   *)
(* v, the outer variable afterwards, and the callbacks invoked.            *)

Settled(p, m, calls) == [ok |-> p.ok, v |-> p.v, mul |-> m, calls |-> calls]

get(inst, self, arg, fr, m) ==
    [cached |->
        IF inst.isComputed
        THEN IF isError(inst.finalResult[1])
             THEN <<Settled(Rejected(getError(inst.finalResult[1])), m, 0)>>
             ELSE <<Settled(Resolved(getValue(inst.finalResult[1])), m, 0)>>
        ELSE <<>>,
     store |-> [inst EXCEPT !.finalResult = <<fr>>, !.isComputed = TRUE],
     settle |->
        IF isError(fr)
        THEN Settled(Rejected(getError(fr)), m, 0)
        ELSE Settled(Resolved(getValue(fr)), m, 0)]

getOrElse(inst, self, fallbackValue, fr, m) ==
    [cached |->
        IF inst.isComputed
        THEN IF isError(inst.finalResult[1])
             THEN <<Settled(Resolved(fallbackValue), m, 0)>>
             ELSE <<Settled(Resolved(getValue(inst.finalResult[1])), m, 0)>>
        ELSE <<>>,
     store |-> [inst EXCEPT !.finalResult = <<fr>>, !.isComputed = TRUE],
     settle |->
        IF isError(fr)
        THEN Settled(Resolved(fallbackValue), m, 0)
        ELSE Settled(Resolved(getValue(fr)), m, 0)]

getOrElseGet(inst, self, func, fr, m) ==
    [cached |-> <<>>,
     store |-> [inst EXCEPT !.finalResult = <<fr>>],
     settle |->
        IF isError(fr)
        THEN LET c == CallCb(func, getError(fr), m)
             IN  Settled(c, c.mul, 1)
        ELSE Settled(Resolved(getValue(fr)), m, 0)]

getOrElseThrow(inst, self, func, fr, m) ==
    [cached |->
        IF inst.isComputed
        THEN IF isError(inst.finalResult[1])
             THEN LET c == CallCb(func, getError(inst.finalResult[1]), m)
                  IN  <<Settled(Rejected(c.v), c.mul, 1)>>
             ELSE <<Settled(Resolved(getValue(inst.finalResult[1])), m, 0)>>
        ELSE <<>>,
     store |-> [inst EXCEPT !.finalResult = <<fr>>, !.isComputed = TRUE],
     settle |->
        IF isError(fr)
        THEN LET c == CallCb(func, getError(fr), m)
             IN  Settled(Rejected(c.v), c.mul, 1)
        ELSE Settled(Resolved(getValue(fr)), m, 0)]

run(inst, self, arg, fr, m) ==
    [cached |->
        IF inst.isComputed
        THEN <<Settled(Resolved(self), m, 0)>>
        ELSE <<>>,
     store |-> [inst EXCEPT !.finalResult = <<fr>>, !.isComputed = TRUE],
     settle |->
        IF isError(fr)
        THEN Settled(Rejected(getError(fr)), m, 0)
        ELSE Settled(Resolved(self), m, 0)]

Methods == {"get", "run", "getOrElse", "getOrElseGet", "getOrElseThrow"}

\* Try.get, Try.run, ...: each forwards to its function
Execute(meth, inst, self, arg, fr, m) ==
    CASE meth = "get" -> get(inst, self, arg, fr, m)
      [] meth = "run" -> run(inst, self, arg, fr, m)
      [] meth = "getOrElse" -> getOrElse(inst, self, arg.v, fr, m)
      [] meth = "getOrElseGet" -> getOrElseGet(inst, self, arg, fr, m)
      [] meth = "getOrElseThrow" -> getOrElseThrow(inst, self, arg, fr, m)

\* isSuccess(), isFailure(), getCause(): they read the cache
\* isSuccess() that looks at the value slot
isSuccess_byValue(inst) == ~IsNullish(getValue(inst.finalResult[1]))

isSuccess(inst) == ~isError(inst.finalResult[1])
isFailure(inst) == isError(inst.finalResult[1])
getCause(inst) == getError(inst.finalResult[1])

----------------------------------------------------------------------------
(* The step functions of Try.  Each takes prev, its callbacks and the      *)
(* outer variable and hands back Out(...).                                 *)

of(func, m) ==
    LET result == NewResult
        c == CallCb(func, Undefined, m)
        body == IF c.ok THEN Done(setValue(result, c.v)) ELSE Thrown(result, c.v)
    IN  Out(runInTry(body).res, c.mul, 1, Raised(c))

success(value, m) == Out(setValue(NewResult, value), m, 0, <<>>)

\* failure with the error put into the value slot
failure_intoValue(err, m) == Out(setValue(NewResult, err), m, 0, <<>>)

failure(err, m) == Out(setError(NewResult, err), m, 0, <<>>)

\* The first step of a Try made by Try.of, Try.success or Try.failure
Initial(step, m) ==
    CASE step.op = "of" -> of(step.f, m)
      [] step.op = "success" -> success(step.f.v, m)
      [] step.op = "failure" -> failure(step.f.v, m)

map(prev, func, m) ==
    IF isError(prev)
    THEN Out(prev, m, 0, <<>>)
    ELSE LET c == CallCb(func, getValue(prev), m)
             body == IF c.ok THEN Done(setValue(prev, c.v)) ELSE Thrown(prev, c.v)
         IN  Out(runInTry(body).res, c.mul, 1, Raised(c))

recover(prev, func, m) ==
    IF ~isError(prev)
    THEN Out(prev, m, 0, <<>>)
    ELSE LET c == CallCb(func, getError(prev), m)
             body == IF c.ok
                     THEN Done(setError(setValue(prev, c.v), Undefined))
                     ELSE Thrown(prev, c.v)
         IN  Out(runInTry(body).res, c.mul, 1, Raised(c))

\* step(result) for the steps of a Try that a callback hands to a combinator
NestedStep(step, prev, m) ==
    CASE step.op \in {"of", "success", "failure"} -> Initial(step, m)
      [] step.op = "map" -> map(prev, step.f, m)
      [] step.op = "recover" -> recover(prev, step.f, m)

RECURSIVE runStepsFrom(_, _, _, _, _)

\* The loop of runSteps after step k has handed back o
runStepsOn(steps, k, o, cbs) ==
    runStepsFrom(steps, k + 1, o.res, o.mul, Append(cbs, o.calls))

\* runSteps on the Try a callback returned: the loop from step k on; cbs
\* collects the callbacks each step invoked
runStepsFrom(steps, k, result, m, cbs) ==
    IF k > Len(steps)
    THEN [res |-> result, mul |-> m, cbs |-> cbs]
    ELSE runStepsOn(steps, k, NestedStep(steps[k], result, m), cbs)

runSteps(steps, m) == runStepsFrom(steps, 1, NewResult, m, <<>>)

\* What tryObject.get() or tryObject.run() on the Try tv a callback returned
\* comes to, e being what the method yields after the run of the steps, in
\* which step k has invoked cbs[k] callbacks: the settlement, and in touch
\* the instance after the call when tv is an instance of tries (n its index,
\* inst the instance as the step found it) and the call has executed it
Nested(tv, e, cbs) ==
    [ok |-> IF e.cached # <<>> THEN e.cached[1].ok ELSE e.settle.ok,
     v |-> IF e.cached # <<>> THEN e.cached[1].v ELSE e.settle.v,
     mul |-> IF e.cached # <<>> THEN e.cached[1].mul ELSE e.settle.mul,
     calls |-> 0,
     touch |-> IF e.cached # <<>> \/ tv.n = 0
               THEN <<>>
               ELSE <<tv.n, [e.store EXCEPT
                        !.stepRuns = [k \in 1..Len(@) |-> @[k] + 1],
                        !.cbRuns = [k \in 1..Len(@) |-> @[k] + cbs[k]]]>>]

NestedGetOn(tv, inst, r) == Nested(tv, get(inst, tv, NoCb, r.res, r.mul), r.cbs)
NestedRunOn(tv, inst, r) == Nested(tv, run(inst, tv, NoCb, r.res, r.mul), r.cbs)

\* tryObject.get() and tryObject.run() on the Try a callback returned
NestedGet(tv, m) ==
    LET inst == IF tv.n = 0 THEN NewTry(tv.steps) ELSE tv.inst
    IN  NestedGetOn(tv, inst, runSteps(inst.steps, m))

NestedRun(tv, m) ==
    LET inst == IF tv.n = 0 THEN NewTry(tv.steps) ELSE tv.inst
    IN  NestedRunOn(tv, inst, runSteps(inst.steps, m))

\* The step has awaited the nested call g
Nest(o, g) == [o EXCEPT !.nested = g.touch]

\* mapIf without the check of prev.isError()
mapIf_unguarded(prev, predicate, func, m) ==
    LET p == CallCb(predicate, getValue(prev), m)
        c == CallCb(func, getValue(prev), p.mul)
    IN  IF ~p.ok
        THEN Out(runInTry(Thrown(prev, p.v)).res, p.mul, 1, Raised(p))
        ELSE IF Falsy(p.v)
        THEN Out(runInTry(Done(prev)).res, p.mul, 1, <<>>)
        ELSE IF ~c.ok
        THEN Out(runInTry(Thrown(prev, c.v)).res, c.mul, 2, Raised(c))
        ELSE Out(runInTry(Done(setValue(prev, c.v))).res, c.mul, 2, <<>>)

mapIf(prev, predicate, func, m) ==
    IF isError(prev)
    THEN Out(runInTry(Done(prev)).res, m, 0, <<>>)
    ELSE LET p == CallCb(predicate, getValue(prev), m)
             c == CallCb(func, getValue(prev), p.mul)
         IN  IF ~p.ok
             THEN Out(runInTry(Thrown(prev, p.v)).res, p.mul, 1, Raised(p))
             ELSE IF Falsy(p.v)
             THEN Out(runInTry(Done(prev)).res, p.mul, 1, <<>>)
             ELSE IF ~c.ok
             THEN Out(runInTry(Thrown(prev, c.v)).res, c.mul, 2, Raised(c))
             ELSE Out(runInTry(Done(setValue(prev, c.v))).res, c.mul, 2, <<>>)

flatMap(prev, func, m) ==
    IF isError(prev)
    THEN Out(prev, m, 0, <<>>)
    ELSE LET c == CallCb(func, getValue(prev), m)
             g == NestedGet(c.v, c.mul)
         IN  IF ~c.ok
             THEN Out(runInTry(Thrown(prev, c.v)).res, c.mul, 1, Raised(c))
             ELSE IF ~g.ok
             THEN Nest(Out(runInTry(Thrown(prev, g.v)).res, g.mul, 1, <<>>), g)
             ELSE Nest(Out(runInTry(Done(setValue(prev, g.v))).res, g.mul, 1, <<>>), g)

flatMapIf(prev, predicate, func, m) ==
    IF isError(prev)
    THEN Out(runInTry(Done(prev)).res, m, 0, <<>>)
    ELSE LET p == CallCb(predicate, getValue(prev), m)
             c == CallCb(func, getValue(prev), p.mul)
             g == NestedGet(c.v, c.mul)
         IN  IF ~p.ok
             THEN Out(runInTry(Thrown(prev, p.v)).res, p.mul, 1, Raised(p))
             ELSE IF Falsy(p.v)
             THEN Out(runInTry(Done(prev)).res, p.mul, 1, <<>>)
             ELSE IF ~c.ok
             THEN Out(runInTry(Thrown(prev, c.v)).res, c.mul, 2, Raised(c))
             ELSE IF ~g.ok
             THEN Nest(Out(runInTry(Thrown(prev, g.v)).res, g.mul, 2, <<>>), g)
             ELSE Nest(Out(runInTry(Done(setValue(prev, g.v))).res, g.mul, 2, <<>>), g)

\* filterNot that fails the Try when the predicate holds
filterNot_whenTrue(prev, predicate, func, m) ==
    IF isError(prev)
    THEN Out(runInTry(Done(prev)).res, m, 0, <<>>)
    ELSE LET p == CallCb(predicate, getValue(prev), m)
             e == CallCb(func, getValue(prev), p.mul)
         IN  IF ~p.ok
             THEN Out(runInTry(Thrown(prev, p.v)).res, p.mul, 1, Raised(p))
             ELSE IF Falsy(p.v)
             THEN Out(runInTry(Done(prev)).res, p.mul, 1, <<>>)
             ELSE IF func = NoCb
             THEN Out(runInTry(Done(setError(prev,
                        NoSuchElementException("Predicate does not hold for", getValue(prev))))).res, p.mul, 1, <<>>)
             ELSE IF ~e.ok
             THEN Out(runInTry(Thrown(prev, e.v)).res, e.mul, 2, Raised(e))
             ELSE Out(runInTry(Done(setError(prev, e.v))).res, e.mul, 2, <<>>)

\* func is NoCb when no error provider was given
filterNot(prev, predicate, func, m) ==
    IF isError(prev)
    THEN Out(runInTry(Done(prev)).res, m, 0, <<>>)
    ELSE LET p == CallCb(predicate, getValue(prev), m)
             e == CallCb(func, getValue(prev), p.mul)
         IN  IF ~p.ok
             THEN Out(runInTry(Thrown(prev, p.v)).res, p.mul, 1, Raised(p))
             ELSE IF ~Falsy(p.v)
             THEN Out(runInTry(Done(prev)).res, p.mul, 1, <<>>)
             ELSE IF func = NoCb
             THEN Out(runInTry(Done(setError(prev,
                        NoSuchElementException("Predicate does not hold for", getValue(prev))))).res, p.mul, 1, <<>>)
             ELSE IF ~e.ok
             THEN Out(runInTry(Thrown(prev, e.v)).res, e.mul, 2, Raised(e))
             ELSE Out(runInTry(Done(setError(prev, e.v))).res, e.mul, 2, <<>>)

filterTry(prev, predicate, func, m) ==
    IF isError(prev)
    THEN Out(runInTry(Done(prev)).res, m, 0, <<>>)
    ELSE LET p == CallCb(predicate, getValue(prev), m)
             g == NestedGet(p.v, p.mul)
             e == CallCb(func, getValue(prev), g.mul)
         IN  IF ~p.ok
             THEN Out(runInTry(Thrown(prev, p.v)).res, p.mul, 1, Raised(p))
             ELSE IF ~g.ok
             THEN Nest(Out(runInTry(Thrown(prev, g.v)).res, g.mul, 1, <<>>), g)
             ELSE IF Falsy(g.v)
             THEN Nest(Out(runInTry(Done(prev)).res, g.mul, 1, <<>>), g)
             ELSE IF func = NoCb
             THEN Nest(Out(runInTry(Done(setError(prev,
                        NoSuchElementException("Predicate does not hold for", getValue(prev))))).res, g.mul, 1, <<>>), g)
             ELSE IF ~e.ok
             THEN Nest(Out(runInTry(Thrown(prev, e.v)).res, e.mul, 2, Raised(e)), g)
             ELSE Nest(Out(runInTry(Done(setError(prev, e.v))).res, e.mul, 2, <<>>), g)

andThen(prev, func, m) ==
    IF isError(prev)
    THEN Out(prev, m, 0, <<>>)
    ELSE LET c == CallCb(func, getValue(prev), m)
             body == IF c.ok THEN Done(prev) ELSE Thrown(prev, c.v)
         IN  Out(runInTry(body).res, c.mul, 1, Raised(c))

andThenTry(prev, func, m) ==
    IF isError(prev)
    THEN Out(prev, m, 0, <<>>)
    ELSE LET c == CallCb(func, getValue(prev), m)
             g == NestedRun(c.v, c.mul)
         IN  IF ~c.ok
             THEN Out(runInTry(Thrown(prev, c.v)).res, c.mul, 1, Raised(c))
             ELSE IF ~g.ok
             THEN Nest(Out(runInTry(Thrown(prev, g.v)).res, g.mul, 1, <<>>), g)
             ELSE Nest(Out(runInTry(Done(prev)).res, g.mul, 1, <<>>), g)

andFinally(prev, func, m) ==
    LET c == CallCb(func, getValue(prev), m)
        body == IF c.ok THEN Done(prev) ELSE Thrown(prev, c.v)
    IN  Out(runInTry(body).res, c.mul, 1, Raised(c))

andFinallyTry(prev, func, m) ==
    LET c == CallCb(func, getValue(prev), m)
        g == NestedRun(c.v, c.mul)
    IN  IF ~c.ok
        THEN Out(runInTry(Thrown(prev, c.v)).res, c.mul, 1, Raised(c))
        ELSE IF ~g.ok
        THEN Nest(Out(runInTry(Thrown(prev, g.v)).res, g.mul, 1, <<>>), g)
        ELSE Nest(Out(runInTry(Done(prev)).res, g.mul, 1, <<>>), g)

onFailure(prev, func, m) ==
    IF ~isError(prev)
    THEN Out(prev, m, 0, <<>>)
    ELSE LET c == CallCb(func, getError(prev), m)
             body == IF c.ok THEN Done(prev) ELSE Thrown(prev, c.v)
         IN  Out(runInTry(body).res, c.mul, 1, Raised(c))

\* recoverWith without prev.setError(undefined)
recoverWith_keepError(prev, func, m) ==
    IF ~isError(prev)
    THEN Out(prev, m, 0, <<>>)
    ELSE LET c == CallCb(func, getError(prev), m)
             g == NestedGet(c.v, c.mul)
         IN  IF ~c.ok
             THEN Out(runInTry(Thrown(prev, c.v)).res, c.mul, 1, Raised(c))
             ELSE IF ~g.ok
             THEN Nest(Out(runInTry(Thrown(prev, g.v)).res, g.mul, 1, <<>>), g)
             ELSE Nest(Out(runInTry(Done(setValue(prev, g.v))).res, g.mul, 1, <<>>), g)

recoverWith(prev, func, m) ==
    IF ~isError(prev)
    THEN Out(prev, m, 0, <<>>)
    ELSE LET c == CallCb(func, getError(prev), m)
             g == NestedGet(c.v, c.mul)
         IN  IF ~c.ok
             THEN Out(runInTry(Thrown(prev, c.v)).res, c.mul, 1, Raised(c))
             ELSE IF ~g.ok
             THEN Nest(Out(runInTry(Thrown(prev, g.v)).res, g.mul, 1, <<>>), g)
             ELSE Nest(Out(runInTry(Done(setError(setValue(prev, g.v), Undefined))).res,
                      g.mul, 1, <<>>), g)

mapFailure(prev, func, m) ==
    IF ~isError(prev)
    THEN Out(prev, m, 0, <<>>)
    ELSE LET c == CallCb(func, getError(prev), m)
             body == IF c.ok THEN Done(setError(prev, c.v)) ELSE Thrown(prev, c.v)
         IN  Out(runInTry(body).res, c.mul, 1, Raised(c))

\* errorType is the name of the error class
\* mapFailureWith that maps every instance of Error, whatever its name
mapFailureWith_instanceOf(prev, errorType, func, m) ==
    IF errorType = "Error" \/ ~isError(prev) \/ errorType = getError(prev).t
    THEN mapFailure(prev, func, m)
    ELSE Out(runInTry(Done(prev)).res, m, 0, <<>>)

mapFailureWith(prev, errorType, func, m) ==
    IF ~isError(prev)
    THEN Out(prev, m, 0, <<>>)
    ELSE IF errorType # getError(prev).t
    THEN Out(runInTry(Done(prev)).res, m, 0, <<>>)
    ELSE LET c == CallCb(func, getError(prev), m)
             body == IF c.ok THEN Done(setError(prev, c.v)) ELSE Thrown(prev, c.v)
         IN  Out(runInTry(body).res, c.mul, 1, Raised(c))

----------------------------------------------------------------------------
(* combine and sequence await the get() of every input Try; what they do   *)
(* once those have settled is below: rej is <<>> or the first rejection,   *)
(* values the inputs' values in input order.                               *)

Arr(vs) == [t |-> "array", n |-> Len(vs), elems |-> vs]

\* combine that hands the values to func last input first
combine_lastFirst(rej, values, func, m) ==
    LET result == NewResult
        body == IF rej = <<>> THEN Done(result) ELSE Thrown(result, rej[1])
        c == CallCb(func, Arr([k \in 1..Len(values) |-> values[Len(values) + 1 - k]]), m)
    IN  IF ~runInTry(body).success
        THEN Out(runInTry(body).res, m, 0, <<>>)
        ELSE IF c.ok
        THEN Out(setValue(result, c.v), c.mul, 1, <<>>)
        ELSE [Out(result, c.mul, 1, Raised(c)) EXCEPT !.esc = <<c.v>>]

combine(rej, values, func, m) ==
    LET result == NewResult
        body == IF rej = <<>> THEN Done(result) ELSE Thrown(result, rej[1])
        c == CallCb(func, Arr(values), m)
    IN  IF ~runInTry(body).success
        THEN Out(runInTry(body).res, m, 0, <<>>)
        ELSE IF c.ok
        THEN Out(setValue(result, c.v), c.mul, 1, <<>>)
        ELSE [Out(result, c.mul, 1, Raised(c)) EXCEPT !.esc = <<c.v>>]

sequence(rej, values, m) ==
    LET result == NewResult
        body == IF rej = <<>> THEN Done(result) ELSE Thrown(result, rej[1])
    IN  IF ~runInTry(body).success
        THEN Out(runInTry(body).res, m, 0, <<>>)
        ELSE Out(setValue(result, Arr(values)), m, 0, <<>>)

----------------------------------------------------------------------------
(* The step closures a Try holds, and the runner *)

\* step(prev) for every step that awaits no other instance of tries
ApplyStep(step, prev, m) ==
    CASE step.op \in {"of", "success", "failure"} -> Initial(step, m)
      [] step.op = "map" -> map(prev, step.f, m)
      [] step.op = "mapIf" -> mapIf(prev, step.g, step.f, m)
      [] step.op = "flatMap" -> flatMap(prev, step.f, m)
      [] step.op = "flatMapIf" -> flatMapIf(prev, step.g, step.f, m)
      [] step.op = "filterNot" -> filterNot(prev, step.g, step.f, m)
      [] step.op = "filterTry" -> filterTry(prev, step.g, step.f, m)
      [] step.op \in {"andThen", "peek"} -> andThen(prev, step.f, m)
      [] step.op = "andThenTry" -> andThenTry(prev, step.f, m)
      [] step.op = "andFinally" -> andFinally(prev, step.f, m)
      [] step.op = "andFinallyTry" -> andFinallyTry(prev, step.f, m)
      [] step.op = "onFailure" -> onFailure(prev, step.f, m)
      [] step.op = "recover" -> recover(prev, step.f, m)
      [] step.op = "recoverWith" -> recoverWith(prev, step.f, m)
      [] step.op = "mapFailure" -> mapFailure(prev, step.f, m)
      [] step.op = "mapFailureWith" -> mapFailureWith(prev, step.et, step.f, m)

----------------------------------------------------------------------------
(* The Try class: factories and combinators *)

\* Try.of that calls func when the Try is made
Try_of_eager(func) ==
    [NewTry(<<Step("of", func, NoCb)>>) EXCEPT !.stepRuns = <<1>>, !.cbRuns = <<1>>]

\* parallel is "true", "false" or "omitted"
Try_of(func) == NewTry(<<Step("of", func, NoCb)>>)
Try_success(value) == NewTry(<<Step("success", Const(value), NoCb)>>)
Try_failure(err) == NewTry(<<Step("failure", Const(err), NoCb)>>)
Try_combine(ins, func, parallel) ==
    NewTry(<<[Step("combine", func, NoCb) EXCEPT
                !.ins = ins, !.par = (parallel # "false")]>>)
Try_sequence(ins, parallel) ==
    NewTry(<<[Step("sequence", NoCb, NoCb) EXCEPT
                !.ins = ins, !.par = (parallel # "false")]>>)

\* A combinator that pushes the step onto the receiver's own steps array
Combinator_inPlace(pool, i, step) ==
    Append([pool EXCEPT ![i].steps = Append(@, step),
                        ![i].stepRuns = Append(@, 0),
                        ![i].cbRuns = Append(@, 0)],
           NewTry(Append(pool[i].steps, step)))

\* this.map(func), this.recover(func), ...: a new Try whose steps are the
\* receiver's followed by the new step; pool is tries, i the receiver.
Combinator(pool, i, step) ==
    Append(pool, NewTry(Append(pool[i].steps, step)))

----------------------------------------------------------------------------
(* Option.  An instance holds its steps and finalResult, which every       *)
(* execution overwrites; there is no cache.                                 *)

\* new Option(steps)
NewOption(steps) ==
    [steps |-> steps, finalResult |-> Undefined,
     stepRuns |-> Zeros(Len(steps)), cbRuns |-> Zeros(Len(steps))]

\* An Option a callback has just made with Option.of
FreshOption(steps) == [t |-> "Option", n |-> 0, steps |-> steps]

\* The step of Option.none() and of Option.some(value)
none(m) == Out(setValue(NewResult, Null), m, 0, <<>>)
some(value, m) == Out(setValue(NewResult, value), m, 0, <<>>)

\* A step whose callback threw: the exception leaves the step
Escaped(prev, c) ==
    [res |-> prev, mul |-> c.mul, calls |-> 1, raised |-> <<c.v>>, esc |-> <<c.v>>,
     nested |-> <<>>]

\* The step of Option.when(true, provider): the value is what the provider
\* hands back when the step runs
whenWithProvider(prev, value, m) ==
    LET c == CallCb(value, Undefined, m)
    IN  IF c.ok THEN Out(setValue(NewResult, c.v), c.mul, 1, <<>>)
        ELSE Escaped(prev, c)

\* The promise optionObject.get() returns, for an Option made by Option.of
\* inside a callback
OptionGetOfFresh(ov, m) ==
    LET v == getValue(IF ov.steps[1].op = "none" THEN none(m).res
                      ELSE some(ov.steps[1].f.v, m).res)
    IN  PromiseOf(IF IsNullish(v)
                  THEN Rejected(NoSuchElementException("No value present", Undefined))
                  ELSE Resolved(v))

Option_filter(prev, predicate, m) ==
    IF Falsy(getValue(prev))
    THEN Out(prev, m, 0, <<>>)
    ELSE LET r == CallRaw(predicate, getValue(prev), m)
         IN  IF r.thrown THEN Escaped(prev, r)
             ELSE IF Falsy(r.v) THEN Out(prev, r.mul, 1, <<>>)
             ELSE Out(setValue(prev, Null), r.mul, 1, <<>>)

Option_map(prev, mapper, m) ==
    IF Falsy(getValue(prev))
    THEN Out(prev, m, 0, <<>>)
    ELSE LET c == CallCb(mapper, getValue(prev), m)
         IN  IF c.ok THEN Out(setValue(prev, c.v), c.mul, 1, <<>>)
             ELSE Escaped(prev, c)

Option_flatMap(prev, mapper, m) ==
    IF Falsy(getValue(prev))
    THEN Out(prev, m, 0, <<>>)
    ELSE LET c == CallCb(mapper, getValue(prev), m)
         IN  IF c.ok
             THEN Out(setValue(prev, OptionGetOfFresh(c.v, c.mul)), c.mul, 1, <<>>)
             ELSE Escaped(prev, c)

orElseWithProvider(prev, func, m) ==
    IF Falsy(getValue(prev))
    THEN LET c == CallCb(func, Undefined, m)
         IN  IF c.ok
             THEN Out(setValue(NewResult, OptionGetOfFresh(c.v, c.mul)), c.mul, 1, <<>>)
             ELSE Escaped(prev, c)
    ELSE Out(prev, m, 0, <<>>)

\* onEmpty with the test of Option.of: empty only on null and undefined
onEmpty_nullish(prev, func, m) ==
    IF IsNullish(getValue(prev))
    THEN LET c == CallCb(func, Undefined, m)
         IN  IF c.ok THEN Out(prev, c.mul, 1, <<>>) ELSE Escaped(prev, c)
    ELSE Out(prev, m, 0, <<>>)

peek(prev, consumer, m) ==
    IF Falsy(getValue(prev))
    THEN Out(prev, m, 0, <<>>)
    ELSE LET c == CallCb(consumer, getValue(prev), m)
         IN  IF c.ok THEN Out(prev, c.mul, 1, <<>>) ELSE Escaped(prev, c)

onEmpty(prev, func, m) ==
    IF Falsy(getValue(prev))
    THEN LET c == CallCb(func, Undefined, m)
         IN  IF c.ok THEN Out(prev, c.mul, 1, <<>>) ELSE Escaped(prev, c)
    ELSE Out(prev, m, 0, <<>>)

\* result = await step(result) in Option.runSteps
ApplyOptionStep(step, prev, m) ==
    CASE step.op = "none" -> none(m)
      [] step.op = "some" -> some(step.f.v, m)
      [] step.op = "whenWithProvider" -> whenWithProvider(prev, step.f, m)
      [] step.op = "filter" -> Option_filter(prev, step.f, m)
      [] step.op = "map" -> Option_map(prev, step.f, m)
      [] step.op = "flatMap" -> Option_flatMap(prev, step.f, m)
      [] step.op = "orElse" -> orElseWithProvider(prev, step.f, m)
      [] step.op = "peek" -> peek(prev, step.f, m)
      [] step.op = "onEmpty" -> onEmpty(prev, step.f, m)

\* Option.none(), Option.some(value), Option.of(value)
Option_none == NewOption(<<Step("none", NoCb, NoCb)>>)
Option_some(value) == NewOption(<<Step("some", Const(value), NoCb)>>)
Option_of(value) == IF IsNullish(value) THEN Option_none ELSE Option_some(value)

\* Option.when(condition, value): value is a callback record when it is a
\* function, a record of kind "value" otherwise
Plain(v) == [k |-> "value", v |-> v]
Option_when(condition, value) ==
    IF Falsy(condition) THEN Option_none
    ELSE IF value.k # "value"
         THEN NewOption(<<Step("whenWithProvider", value, NoCb)>>)
         ELSE Option_some(value.v)

\* this.filter(predicate), this.map(mapper), ...: a new Option with the
\* receiver's steps followed by the new step
OptionCombinator(pool, i, step) ==
    Append(pool, NewOption(Append(pool[i].steps, step)))

\* this.mapTry(mapper) of options[i]: Try.of(async () => mapper(await
\* this.get())); the function of the step keeps the receiver and the mapper
Option_mapTry(i, mapper) ==
    Try_of([k |-> "mapTry", v |-> Undefined, opt |-> i, g |-> mapper])

\* isEmpty with the test the steps use: !finalResult
isEmpty_falsy(opt) == Falsy(opt.finalResult)

isEmpty(opt) == IsNullish(opt.finalResult)
isDefined(opt) == ~isEmpty(opt)

\* What the promise of an async method settles with when the method returns
\* v: a promise returned is followed
ReturnOf(v) == Await(v)

\* Option.get, run, getOrElse, getOrElseThrow after await this.runSteps()
Option_get(opt, arg, m) ==
    IF isEmpty(opt)
    THEN Settled(Rejected(NoSuchElementException("No value present", Undefined)), m, 0)
    ELSE Settled(ReturnOf(opt.finalResult), m, 0)

Option_run(opt, arg, m) == Settled(Resolved(Undefined), m, 0)

\* getOrElse that evaluates a fallback function before it looks at the value
Option_getOrElse_eager(opt, value, m) ==
    IF value.k # "value"
    THEN LET c == CallCb(value, Undefined, m)
         IN  IF isDefined(opt)
             THEN Settled(ReturnOf(opt.finalResult), c.mul, 1)
             ELSE Settled(c, c.mul, 1)
    ELSE IF isDefined(opt)
         THEN Settled(ReturnOf(opt.finalResult), m, 0)
         ELSE Settled(ReturnOf(value.v), m, 0)

Option_getOrElse(opt, value, m) ==
    IF isDefined(opt)
    THEN Settled(ReturnOf(opt.finalResult), m, 0)
    ELSE IF value.k # "value"
         THEN LET c == CallCb(value, Undefined, m)
              IN  Settled(c, c.mul, 1)
         ELSE Settled(ReturnOf(value.v), m, 0)

Option_getOrElseThrow(opt, exceptionProvider, m) ==
    IF isEmpty(opt)
    THEN LET r == CallRaw(exceptionProvider, Undefined, m)
         IN  Settled(Rejected(r.v), r.mul, 1)
    ELSE Settled(ReturnOf(opt.finalResult), m, 0)

OptionExecute(meth, opt, arg, m) ==
    CASE meth = "get" -> Option_get(opt, arg, m)
      [] meth = "run" -> Option_run(opt, arg, m)
      [] meth = "getOrElse" -> Option_getOrElse(opt, arg, m)
      [] meth = "getOrElseThrow" -> Option_getOrElseThrow(opt, arg, m)

----------------------------------------------------------------------------
(* Calls in flight.  A frame is one call of an execution method: pc is the *)
(* step runSteps invokes next, res the Result it holds.  parent is the     *)
(* frame whose combine / sequence step awaits this call (0: the caller),   *)
(* slot the input position it fills there.  A frame in st "wait" is inside *)
(* a combine / sequence step: kids holds what its inputs settled with, rej *)
(* the first rejection, nxt the next input a sequential step starts.       *)

NewFrame(kind, i, meth, arg, parent, slot) ==
    [kind |-> kind, inst |-> i, meth |-> meth, arg |-> arg, pc |-> 1, res |-> NewResult,
     parent |-> parent, slot |-> slot, st |-> "run",
     kids |-> <<>>, nxt |-> 0, rej |-> <<>>]

DoneFrame ==
    [kind |-> "", inst |-> 0, meth |-> "", arg |-> NoCb, pc |-> 0, res |-> NewResult,
     parent |-> 0, slot |-> 0, st |-> "done",
     kids |-> <<>>, nxt |-> 0, rej |-> <<>>]

Pend == [st |-> "pend", v |-> Undefined]

RECURSIVE Trim(_)
\* Settled frames at the end of tasks are dropped
Trim(ts) ==
    IF ts # <<>> /\ ts[Len(ts)].st = "done"
    THEN Trim(SubSeq(ts, 1, Len(ts) - 1))
    ELSE ts

\* The promise of a call settles with s: the awaiting step, if it is still
\* waiting, is told.
Deliver(ts, parent, slot, s) ==
    IF parent # 0 /\ ts[parent].st = "wait"
    THEN [ts EXCEPT
            ![parent].kids[slot] = [st |-> IF s.ok THEN "ok" ELSE "err", v |-> s.v],
            ![parent].rej = IF ~s.ok /\ @ = <<>> THEN <<s.v>> ELSE @]
    ELSE ts

RECURSIVE StartGets(_, _, _, _, _, _, _)
\* v.get() for the inputs ins[k..last] of the step frame t is in: an input
\* that is Computed settles at once, any other becomes a frame.
StartGets(ts, pool, m, t, ins, k, last) ==
    IF k > last
    THEN ts
    ELSE LET e == get(pool[ins[k]], TryRef(ins[k]), NoCb, NewResult, m)
             next == IF e.cached # <<>>
                     THEN Deliver(ts, t, k, e.cached[1])
                     ELSE Append(ts, NewFrame("try", ins[k], "get", NoCb, t, k))
         IN  StartGets(next, pool, m, t, ins, k + 1, last)

\* The caller awaits each call before it makes the next
CallerIdle == \A t \in 1..Len(tasks) : tasks[t].st = "done" \/ tasks[t].parent # 0

Op(kind, inst, recv, meth, step, before, after, calls, raised, esc, out) ==
    [kind |-> kind, inst |-> inst, recv |-> recv, meth |-> meth, step |-> step,
     before |-> before, after |-> after, calls |-> calls, raised |-> raised,
     esc |-> esc, out |-> out]

\* A call of the caller that has settled: resolved (ok) with v, or rejected;
\* calls counts the invocations of its argument by the method
Entry(kind, i, meth, arg, s) ==
    [kind |-> kind, inst |-> i, meth |-> meth, arg |-> arg, ok |-> s.ok, v |-> s.v,
     calls |-> s.calls]

----------------------------------------------------------------------------
(* Initial state: nothing constructed, multiplier = 2 *)

NoOp == Op("", 0, 0, "", Step("", NoCb, NoCb), NewResult, NewResult, 0, <<>>, <<>>, <<>>)

Bounds(nInstances, nSteps, nCalls) ==
    [instances |-> nInstances, steps |-> nSteps, calls |-> nCalls]

InitWith(b) ==
    /\ tries = <<>>
    /\ options = <<>>
    /\ tasks = <<>>
    /\ mul = 2
    /\ log = <<>>
    /\ lastOp = NoOp
    /\ bound = b

Init == InitWith(Bounds(MaxTries, MaxSteps, MaxCalls))

----------------------------------------------------------------------------
(* Constructing instances *)

CreateTry(inst) ==
    /\ Len(tries) + Len(options) < bound.instances
    /\ tries' = Append(tries, inst)
    /\ lastOp' = NoOp
    /\ UNCHANGED <<options, tasks, mul, log, bound>>

TryOf(func) == CreateTry(Try_of(func))
TrySuccess(value) == CreateTry(Try_success(value))
TryFailure(err) == CreateTry(Try_failure(err))
TryCombine(ins, func, parallel) == CreateTry(Try_combine(ins, func, parallel))
TrySequence(ins, parallel) == CreateTry(Try_sequence(ins, parallel))

\* tries[i].<combinator>(...), the combinator and its callbacks given by step
Chain(i, step) ==
    /\ Len(tries) + Len(options) < bound.instances
    /\ Len(tries[i].steps) < bound.steps
    /\ tries' = Combinator(tries, i, step)
    /\ lastOp' = Op("chain", Len(tries) + 1, i, "", step, NewResult, NewResult,
                    0, <<>>, <<>>, <<>>)
    /\ UNCHANGED <<options, tasks, mul, log, bound>>

----------------------------------------------------------------------------
(* Executing a Try *)

\* The caller calls tries[i].<meth>(arg): the method returns from the cache
\* or starts runSteps.
Call(i, meth, arg) ==
    /\ CallerIdle
    /\ Len(log) < bound.calls
    /\ LET e == Execute(meth, tries[i], TryRef(i), arg, NewResult, mul)
       IN  IF e.cached # <<>>
           THEN /\ log' = Append(log, Entry("try", i, meth, arg, e.cached[1]))
                /\ mul' = e.cached[1].mul
                /\ lastOp' = NoOp
                /\ UNCHANGED <<tries, options, tasks, bound>>
           ELSE /\ tasks' = Append(tasks, NewFrame("try", i, meth, arg, 0, 0))
                /\ lastOp' = NoOp
                /\ UNCHANGED <<tries, options, mul, log, bound>>

\* The caller calls tries[i].<meth>(arg) without awaiting the calls it has
\* made: the method reads isComputed as it is now
CallNow(i, meth, arg) ==
    /\ ~CallerIdle
    /\ Len(log) + Cardinality({t \in 1..Len(tasks) :
                    tasks[t].st # "done" /\ tasks[t].parent = 0}) < bound.calls
    /\ LET e == Execute(meth, tries[i], TryRef(i), arg, NewResult, mul)
       IN  IF e.cached # <<>>
           THEN /\ log' = Append(log, Entry("try", i, meth, arg, e.cached[1]))
                /\ mul' = e.cached[1].mul
                /\ UNCHANGED <<tries, options, tasks, bound>>
           ELSE /\ tasks' = Append(tasks, NewFrame("try", i, meth, arg, 0, 0))
                /\ UNCHANGED <<tries, options, mul, log, bound>>
    /\ lastOp' = [NoOp EXCEPT !.kind = "call", !.inst = i, !.meth = meth]

\* Frame t settles with s
Settle(t, s) ==
    /\ tasks' = Trim(Deliver([tasks EXCEPT ![t] = DoneFrame],
                             tasks[t].parent, tasks[t].slot, s))
    /\ log' = IF tasks[t].parent = 0
              THEN Append(log, Entry(tasks[t].kind, tasks[t].inst, tasks[t].meth, tasks[t].arg, s))
              ELSE log
    /\ mul' = s.mul

\* The callback of a step that returns an instance of pool returns it as it
\* is when the step runs
Held(cb, pool) ==
    IF cb.v.t = "Try" /\ cb.v.n > 0
    THEN [cb EXCEPT !.v = [t |-> "Try", n |-> cb.v.n, inst |-> pool[cb.v.n]]]
    ELSE cb

Bind(step, pool) ==
    [step EXCEPT !.f = Held(step.f, pool), !.g = Held(step.g, pool)]

\* A runner that, after a step, goes on with the step after the next
Advance_skipping(t, o, ran) ==
    LET f == tasks[t]
    IN  /\ tries' = [tries EXCEPT ![f.inst].stepRuns[f.pc] = @ + ran,
                                  ![f.inst].cbRuns[f.pc] = @ + o.calls]
        /\ lastOp' = Op("step", f.inst, 0, f.meth, tries[f.inst].steps[f.pc],
                        f.res, o.res, o.calls, o.raised, o.esc, <<>>)
        /\ tasks' = [tasks EXCEPT ![t] =
                        [f EXCEPT !.pc = f.pc + 2, !.res = o.res, !.st = "run",
                                  !.kids = <<>>, !.nxt = 0, !.rej = <<>>]]
        /\ mul' = o.mul
        /\ log' = log
        /\ UNCHANGED <<options, bound>>

\* The step at pc of frame t has handed back o; ran is 1 if this action also
\* invoked the step.
Advance(t, o, ran) ==
    LET f == tasks[t]
        counted == [tries EXCEPT ![f.inst].stepRuns[f.pc] = @ + ran,
                                 ![f.inst].cbRuns[f.pc] = @ + o.calls]
    IN  /\ tries' = IF o.nested = <<>>
                    THEN counted
                    ELSE [counted EXCEPT ![o.nested[1]] = o.nested[2]]
        /\ lastOp' = Op("step", f.inst, 0, f.meth, tries[f.inst].steps[f.pc],
                        f.res, o.res, o.calls, o.raised, o.esc, <<>>)
        /\ IF o.esc = <<>>
           THEN /\ tasks' = [tasks EXCEPT ![t] =
                        [f EXCEPT !.pc = f.pc + 1, !.res = o.res, !.st = "run",
                                  !.kids = <<>>, !.nxt = 0, !.rej = <<>>]]
                /\ mul' = o.mul
                /\ log' = log
           ELSE Settle(t, Settled(Rejected(o.esc[1]), o.mul, 0))
        /\ UNCHANGED <<options, bound>>

\* result = await step(result), for a step that awaits no instance of tries
RunStep(t) ==
    LET f == tasks[t]
    IN  /\ f.kind = "try"
        /\ f.st = "run"
        /\ f.pc <= Len(tries[f.inst].steps)
        /\ tries[f.inst].steps[f.pc].op \notin {"combine", "sequence"}
        /\ tries[f.inst].steps[f.pc].f.k # "mapTry"
        /\ Advance(t, ApplyStep(Bind(tries[f.inst].steps[f.pc], tries), f.res, mul), 1)

\* A combine / sequence step that starts v.get() on every input at once,
\* whatever the parallel flag
AwaitInputs_allAtOnce(t) ==
    LET f == tasks[t]
        step == tries[f.inst].steps[f.pc]
        n == Len(step.ins)
        waiting == [tasks EXCEPT ![t] =
                        [f EXCEPT !.st = "wait", !.kids = [k \in 1..n |-> Pend],
                                  !.nxt = n + 1]]
    IN  /\ f.kind = "try"
        /\ f.st = "run"
        /\ f.pc <= Len(tries[f.inst].steps)
        /\ step.op \in {"combine", "sequence"}
        /\ tasks' = StartGets(waiting, tries, mul, t, step.ins, 1, n)
        /\ tries' = [tries EXCEPT ![f.inst].stepRuns[f.pc] = @ + 1]
        /\ lastOp' = NoOp
        /\ UNCHANGED <<options, mul, log, bound>>

\* A combine / sequence step starts: get() of every input when parallel, of
\* the first input otherwise.
AwaitInputs(t) ==
    LET f == tasks[t]
        step == tries[f.inst].steps[f.pc]
        n == Len(step.ins)
        first == IF step.par THEN n ELSE IF n = 0 THEN 0 ELSE 1
        waiting == [tasks EXCEPT ![t] =
                        [f EXCEPT !.st = "wait", !.kids = [k \in 1..n |-> Pend],
                                  !.nxt = first + 1]]
    IN  /\ f.kind = "try"
        /\ f.st = "run"
        /\ f.pc <= Len(tries[f.inst].steps)
        /\ step.op \in {"combine", "sequence"}
        /\ tasks' = StartGets(waiting, tries, mul, t, step.ins, 1, first)
        /\ tries' = [tries EXCEPT ![f.inst].stepRuns[f.pc] = @ + 1]
        /\ lastOp' = NoOp
        /\ UNCHANGED <<options, mul, log, bound>>

\* A sequential combine / sequence step: the input awaited has resolved, the
\* loop goes on to the next input.
NextInput(t) ==
    LET f == tasks[t]
        step == tries[f.inst].steps[f.pc]
    IN  /\ f.st = "wait"
        /\ f.rej = <<>>
        /\ f.nxt <= Len(step.ins)
        /\ f.kids[f.nxt - 1].st = "ok"
        /\ tasks' = StartGets([tasks EXCEPT ![t].nxt = f.nxt + 1], tries, mul,
                              t, step.ins, f.nxt, f.nxt)
        /\ lastOp' = NoOp
        /\ UNCHANGED <<tries, options, mul, log, bound>>

\* The await of a combine / sequence step is over: an input has rejected, or
\* all have resolved.
Resume(t) ==
    LET f == tasks[t]
        step == tries[f.inst].steps[f.pc]
        n == Len(step.ins)
        values == [k \in 1..n |-> f.kids[k].v]
    IN  /\ f.st = "wait"
        /\ step.op \in {"combine", "sequence"}
        /\ \/ f.rej # <<>>
           \/ \A k \in 1..n : f.kids[k].st = "ok"
        /\ IF step.op = "combine"
           THEN Advance(t, combine(f.rej, values, step.f, mul), 0)
           ELSE Advance(t, sequence(f.rej, values, mul), 0)

\* runSteps has returned: the method stores the Result and settles
\* A get that also fills the cache of every instance whose steps begin the
\* executed instance's steps
Return_shared(t) ==
    LET f == tasks[t]
        e == Execute(f.meth, tries[f.inst], TryRef(f.inst), f.arg, f.res, mul)
    IN  /\ f.kind = "try"
        /\ f.st = "run"
        /\ f.pc > Len(tries[f.inst].steps)
        /\ tries' = [i \in 1..Len(tries) |->
                        IF i = f.inst THEN e.store
                        ELSE IF /\ Len(tries[i].steps) < Len(tries[f.inst].steps)
                                /\ tries[i].steps =
                                     SubSeq(tries[f.inst].steps, 1, Len(tries[i].steps))
                        THEN [tries[i] EXCEPT !.isComputed = e.store.isComputed,
                                              !.finalResult = e.store.finalResult]
                        ELSE tries[i]]
        /\ Settle(t, e.settle)
        /\ lastOp' = NoOp
        /\ UNCHANGED <<options, bound>>

\* A get that leaves a cache that is already filled as it is
Return_keepFirst(t) ==
    LET f == tasks[t]
        e == Execute(f.meth, tries[f.inst], TryRef(f.inst), f.arg, f.res, mul)
    IN  /\ f.kind = "try"
        /\ f.st = "run"
        /\ f.pc > Len(tries[f.inst].steps)
        /\ tries' = IF tries[f.inst].isComputed THEN tries
                    ELSE [tries EXCEPT ![f.inst] = e.store]
        /\ Settle(t, e.settle)
        /\ lastOp' = NoOp
        /\ UNCHANGED <<options, bound>>

Return(t) ==
    LET f == tasks[t]
        e == Execute(f.meth, tries[f.inst], TryRef(f.inst), f.arg, f.res, mul)
    IN  /\ f.kind = "try"
        /\ f.st = "run"
        /\ f.pc > Len(tries[f.inst].steps)
        /\ tries' = [tries EXCEPT ![f.inst] = e.store]
        /\ Settle(t, e.settle)
        /\ lastOp' = NoOp
        /\ UNCHANGED <<options, bound>>

\* try.isSuccess(), try.isFailure(), try.getCause(), called between the
\* caller's awaited calls: what the call returns, or the TypeError it throws
\* when finalResult is not set.  lastOp keeps the last query only.
Inspect(i, query) ==
    /\ CallerIdle
    /\ lastOp.kind # "query"
    /\ lastOp' = [NoOp EXCEPT
            !.kind = "query", !.inst = i, !.meth = query,
            !.raised = IF tries[i].finalResult = <<>>
                       THEN <<[t |-> "TypeError", n |-> 0]>>
                       ELSE <<>>,
            !.out = CASE tries[i].finalResult = <<>> -> <<>>
                      [] query = "isSuccess" -> <<Bool(isSuccess(tries[i]))>>
                      [] query = "isFailure" -> <<Bool(isFailure(tries[i]))>>
                      [] query = "getCause" -> <<getCause(tries[i])>>]
    /\ UNCHANGED <<tries, options, tasks, mul, log, bound>>

----------------------------------------------------------------------------
(* Constructing and executing an Option *)

CreateOption(inst) ==
    /\ Len(tries) + Len(options) < bound.instances
    /\ options' = Append(options, inst)
    /\ lastOp' = NoOp
    /\ UNCHANGED <<tries, tasks, mul, log, bound>>

OptionOf(value) == CreateOption(Option_of(value))
OptionWhen(condition, value) == CreateOption(Option_when(condition, value))

\* options[i].<combinator>(...)
OptionChain(i, step) ==
    /\ Len(tries) + Len(options) < bound.instances
    /\ Len(options[i].steps) < bound.steps
    /\ options' = OptionCombinator(options, i, step)
    /\ lastOp' = Op("ochain", Len(options) + 1, i, "", step, NewResult, NewResult,
                    0, <<>>, <<>>, <<>>)
    /\ UNCHANGED <<tries, tasks, mul, log, bound>>

\* An execution method that runs the steps on the first call only and
\* afterwards answers from the stored finalResult
OptionCall_memoized(i, meth, arg) ==
    /\ CallerIdle
    /\ Len(log) < bound.calls
    /\ tasks' = Append(tasks,
            IF options[i].stepRuns[1] = 0
            THEN NewFrame("option", i, meth, arg, 0, 0)
            ELSE [NewFrame("option", i, meth, arg, 0, 0) EXCEPT
                    !.pc = Len(options[i].steps) + 1,
                    !.res = setValue(NewResult, options[i].finalResult)])
    /\ lastOp' = NoOp
    /\ UNCHANGED <<tries, options, mul, log, bound>>

\* The caller calls options[i].<meth>(arg): the method starts runSteps
OptionCall(i, meth, arg) ==
    /\ CallerIdle
    /\ Len(log) < bound.calls
    /\ tasks' = Append(tasks, NewFrame("option", i, meth, arg, 0, 0))
    /\ lastOp' = NoOp
    /\ UNCHANGED <<tries, options, mul, log, bound>>

\* result = await step(result) in Option.runSteps; an exception of the step
\* rejects the call
OptionRunStep(t) ==
    LET f == tasks[t]
        o == ApplyOptionStep(options[f.inst].steps[f.pc], f.res, mul)
    IN  /\ f.kind = "option"
        /\ f.st = "run"
        /\ f.pc <= Len(options[f.inst].steps)
        /\ options' = [options EXCEPT ![f.inst].stepRuns[f.pc] = @ + 1,
                                      ![f.inst].cbRuns[f.pc] = @ + o.calls]
        /\ lastOp' = Op("ostep", f.inst, 0, f.meth, options[f.inst].steps[f.pc],
                        f.res, o.res, o.calls, o.raised, o.esc, <<>>)
        /\ IF o.esc = <<>>
           THEN /\ tasks' = [tasks EXCEPT ![t].pc = f.pc + 1, ![t].res = o.res]
                /\ mul' = o.mul
                /\ log' = log
           ELSE Settle(t, Settled(Rejected(o.esc[1]), o.mul, 0))
        /\ UNCHANGED <<tries, bound>>

\* The loop of runSteps is over: finalResult = result.getValue()
OptionStore(t) ==
    LET f == tasks[t]
    IN  /\ f.kind = "option"
        /\ f.st = "run"
        /\ f.pc > Len(options[f.inst].steps)
        /\ options' = [options EXCEPT ![f.inst].finalResult = getValue(f.res)]
        /\ tasks' = [tasks EXCEPT ![t].st = "stored"]
        /\ lastOp' = NoOp
        /\ UNCHANGED <<tries, mul, log, bound>>

\* await this.runSteps() is over: the method reads finalResult and settles
OptionReturn(t) ==
    LET f == tasks[t]
    IN  /\ f.kind = "option"
        /\ f.st = "stored"
        /\ Settle(t, OptionExecute(f.meth, options[f.inst], f.arg, mul))
        /\ lastOp' = NoOp
        /\ UNCHANGED <<tries, options, bound>>

\* options[i].isEmpty(), options[i].isDefined(), called between the caller's
\* awaited calls.  lastOp keeps the last query only.
OptionInspect(i, query) ==
    /\ CallerIdle
    /\ lastOp.kind # "oquery"
    /\ lastOp' = [NoOp EXCEPT
            !.kind = "oquery", !.inst = i, !.meth = query,
            !.out = IF query = "isEmpty"
                    THEN <<Bool(isEmpty(options[i]))>>
                    ELSE <<Bool(isDefined(options[i]))>>]
    /\ UNCHANGED <<tries, options, tasks, mul, log, bound>>

\* options[i].mapTry(mapper)
OptionMapTry(i, mapper) ==
    /\ CallerIdle
    /\ CreateTry(Option_mapTry(i, mapper))

\* The function of a mapTry Try is called: it calls this.get() on the Option
\* and awaits it
AwaitGet(t) ==
    LET f == tasks[t]
        step == tries[f.inst].steps[f.pc]
    IN  /\ f.kind = "try"
        /\ f.st = "run"
        /\ f.pc <= Len(tries[f.inst].steps)
        /\ step.f.k = "mapTry"
        /\ tasks' = Append([tasks EXCEPT ![t] =
                                [f EXCEPT !.st = "wait", !.kids = <<Pend>>, !.nxt = 2]],
                           NewFrame("option", step.f.opt, "get", NoCb, t, 1))
        /\ tries' = [tries EXCEPT ![f.inst].stepRuns[f.pc] = @ + 1]
        /\ lastOp' = NoOp
        /\ UNCHANGED <<options, mul, log, bound>>

\* this.get() has settled: the function rejects with its rejection, or
\* returns mapper(result); of wraps the call in runInTry
ResumeMapper(t) ==
    LET f == tasks[t]
        step == tries[f.inst].steps[f.pc]
        r == CallRaw(step.f.g, f.kids[1].v, mul)
    IN  /\ f.st = "wait"
        /\ step.f.k = "mapTry"
        /\ f.kids[1].st # "pend"
        /\ IF f.kids[1].st = "err"
           THEN Advance(t, of(Reject(f.kids[1].v), mul), 0)
           ELSE Advance(t, of(IF r.thrown THEN Reject(r.v) ELSE Const(r.v), r.mul), 0)

----------------------------------------------------------------------------
(* Life cycle of Try instances: the caller makes instances, chains         *)
(* combinators and calls the five execution methods, each call awaited     *)
(* before the next.                                                         *)

E1 == Err(1)
E2 == Err(2)


CallArgs(meth) ==
    CASE meth \in {"get", "run"} -> {NoCb}
      [] meth = "getOrElse" -> {Const(Num(4))}
      [] meth = "getOrElseGet" -> {Const(Num(4))}
      [] meth = "getOrElseThrow" -> {Const(E2)}

Next ==
    \/ \E func \in {Const(Num(5)), Throw(E1), Reject(Undefined)} : TryOf(func)
    \/ \E value \in {Num(2)} : TrySuccess(value)
    \/ \E err \in {E1} : TryFailure(err)
    \/ \E i \in 1..Len(tries),
           step \in {Step("map", MulOuter, NoCb), Step("map", Throw(E2), NoCb),
                     Step("recover", Const(Num(9)), NoCb)} : Chain(i, step)
    \/ \E i \in 1..Len(tries), meth \in Methods :
            \E arg \in CallArgs(meth) : Call(i, meth, arg)
    \/ \E t \in 1..Len(tasks) : RunStep(t)
    \/ \E t \in 1..Len(tasks) : Return(t)

Spec == Init /\ [][Next]_vars

----------------------------------------------------------------------------
(* The steps one by one: a chain of up to StepLen combinators on a Try     *)
(* made by a factory, every instance of the chain executed with get().     *)

StepLen == 2
StepCalls == 1

True == Const(Bool(TRUE))
False == Const(Bool(FALSE))
OkTry == Const(FreshTry(<<Step("success", Const(Num(7)), NoCb)>>))
FailedTry == Const(FreshTry(<<Step("failure", Const(E2), NoCb)>>))
TrueTry == Const(FreshTry(<<Step("success", Const(Bool(TRUE)), NoCb)>>))
\* _ => Try.failure(new Error("Failure")).recover(_ => 9)
RecoveredTry ==
    Const(FreshTry(<<Step("failure", Const(E2), NoCb),
                     Step("recover", Const(Num(9)), NoCb)>>))

\* Callbacks that return, throw and reject, with an Error and with undefined

StepMenu ==
    {Step(op, f, NoCb) : op \in {"map", "andThen"},
            f \in {MulOuter, Throw(E2), Reject(E2), Reject(Undefined)}}
    \cup {Step("peek", f, NoCb) : f \in {MulOuter, Throw(E2)}}
    \cup {Step("mapIf", f, True) : f \in {Const(Num(7)), Throw(E2), Reject(Undefined)}}
    \cup {Step("mapIf", Const(Num(7)), g) : g \in {False, Throw(E2)}}
    \cup {Step("flatMap", f, NoCb) :
            f \in {OkTry, FailedTry, Throw(E2), Reject(Undefined)}}
    \cup {Step(op, f, NoCb) : op \in {"andThenTry", "andFinallyTry"},
            f \in {OkTry, FailedTry, Throw(E2)}}
    \cup {Step("flatMapIf", f, True) : f \in {OkTry, FailedTry, Throw(E2)}}
    \cup {Step("flatMapIf", OkTry, g) : g \in {False, Throw(E2)}}
    \cup {Step("filterNot", f, False) : f \in {NoCb, Const(E2), Throw(E2)}}
    \cup {Step("filterNot", NoCb, g) : g \in {True, Throw(E2), Reject(Undefined)}}
    \cup {Step("filterTry", NoCb, g) :
            g \in {TrueTry, Const(FreshTry(<<Step("of", Const(Bool(FALSE)), NoCb)>>)),
                   FailedTry, Throw(E2), Reject(Undefined)}}
    \cup {Step("filterTry", Const(E2), TrueTry)}
    \cup {Step("andFinally", f, NoCb) :
            f \in {Const(Undefined), Throw(E2), Throw(Undefined)}}
    \cup {Step("onFailure", f, NoCb) : f \in {Const(Undefined), Throw(E2)}}
    \cup {Step("recover", f, NoCb) :
            f \in {Const(Num(9)), Args, Throw(E2), Reject(Undefined)}}
    \cup {Step("recoverWith", f, NoCb) :
            f \in {OkTry, FailedTry, RecoveredTry, Throw(E2)}}
    \cup {Step("mapFailure", f, NoCb) :
            f \in {Const(E2), Const(Undefined), Throw(E2), Reject(Undefined)}}
    \cup {[Step("mapFailureWith", Const(E2), NoCb) EXCEPT !.et = et] :
            et \in {"Error", "CustomException"}}

RECURSIVE ChainsOf(_)
\* The lists of at most n steps of the menu
ChainsOf(n) ==
    IF n = 0 THEN {<<>>}
    ELSE ChainsOf(n - 1) \cup
            {Append(c, step) : c \in {d \in ChainsOf(n - 1) : Len(d) = n - 1},
                               step \in StepMenu}

RECURSIVE Chained(_, _)
\* base.<c[1]>(...).<c[2]>(...)...: every instance made on the way
Chained(pool, c) ==
    IF c = <<>> THEN pool
    ELSE Chained(Combinator(pool, Len(pool), Head(c)), Tail(c))

StepInit ==
    /\ \E base \in {Try_of(func) : func \in {Const(Undefined), Resolve(Num(5)),
                                            Throw(E1), Reject(E1), Reject(Undefined)}}
                    \cup {Try_success(value) : value \in {Num(2), Null}}
                    \cup {Try_failure(err) : err \in {E1, CustomException(1)}},
          c \in ChainsOf(StepLen) :
            tries = Chained(<<base>>, c)
    /\ options = <<>>
    /\ tasks = <<>>
    /\ mul = 2
    /\ log = <<>>
    /\ lastOp = NoOp
    /\ bound = Bounds(StepLen + 1, StepLen + 1, StepCalls)

StepNext ==
    \/ \E i \in 1..Len(tries) : Call(i, "get", NoCb)
    \/ \E t \in 1..Len(tasks) : RunStep(t)
    \/ \E t \in 1..Len(tasks) : Return(t)

StepSpec == StepInit /\ [][StepNext]_vars

----------------------------------------------------------------------------
(* Building: every factory and combinators of Try and of Option, with      *)
(* executions in between.                                                   *)

BuildInstances == 2
BuildSteps == 2
BuildCalls == 2

CombineFuncs == {Args, Throw(E2)}
Parallel == {"true", "false", "omitted"}

\* The lists of one or two instances constructed so far
InputLists == {<<i>> : i \in 1..Len(tries)}
                \cup {<<i, j>> : i \in 1..Len(tries), j \in 1..Len(tries)}

SomeSeven == Const(FreshOption(<<Step("some", Const(Num(7)), NoCb)>>))

BuildInit == InitWith(Bounds(BuildInstances, BuildSteps, BuildCalls))

BuildNext ==
    \/ \E func \in {Const(Num(5)), Throw(E1)} : TryOf(func)
    \/ \E value \in {Num(2)} : TrySuccess(value)
    \/ \E err \in {E1} : TryFailure(err)
    \/ \E ins \in InputLists, func \in CombineFuncs, parallel \in Parallel :
            TryCombine(ins, func, parallel)
    \/ \E ins \in InputLists, parallel \in Parallel : TrySequence(ins, parallel)
    \/ \E i \in 1..Len(tries),
           step \in {Step("map", MulOuter, NoCb), Step("recover", Const(Num(9)), NoCb)} :
            Chain(i, step)
    \/ \E value \in {Num(2), Null} : OptionOf(value)
    \/ \E condition \in {Bool(TRUE), Bool(FALSE)}, value \in {Plain(Num(2)), Const(Num(2))} :
            OptionWhen(condition, value)
    \/ \E i \in 1..Len(options),
           step \in {Step("map", MulOuter, NoCb), Step("filter", True, NoCb),
                     Step("flatMap", SomeSeven, NoCb), Step("orElse", SomeSeven, NoCb),
                     Step("peek", MulOuter, NoCb), Step("onEmpty", MulOuter, NoCb)} :
            OptionChain(i, step)
    \/ \E i \in 1..Len(tries), meth \in {"get", "getOrElseGet"} :
            \E arg \in CallArgs(meth) : Call(i, meth, arg)
    \/ \E i \in 1..Len(options), meth \in {"get", "getOrElse"} :
            \E arg \in (IF meth = "get" THEN {NoCb} ELSE {Plain(Num(4))}) :
                OptionCall(i, meth, arg)
    \/ \E t \in 1..Len(tasks) : RunStep(t)
    \/ \E t \in 1..Len(tasks) : AwaitInputs(t)
    \/ \E t \in 1..Len(tasks) : NextInput(t)
    \/ \E t \in 1..Len(tasks) : Resume(t)
    \/ \E t \in 1..Len(tasks) : Return(t)
    \/ \E t \in 1..Len(tasks) : OptionRunStep(t)
    \/ \E t \in 1..Len(tasks) : OptionStore(t)
    \/ \E t \in 1..Len(tasks) : OptionReturn(t)

BuildSpec == BuildInit /\ [][BuildNext]_vars

----------------------------------------------------------------------------
(* Instances that use instances made earlier: tries[3] is made from       *)
(* tries[2] by a combinator whose callback returns tries[1], or by         *)
(* Try.combine / Try.sequence with tries[1] and tries[2] as inputs, and    *)
(* the caller executes the instances in any order.                         *)

HeldCalls == 3

\* const a = <factory>; const b = <factory>; and b.<combinator>(_ => a),
\* Try.combine(a, b, fn[, parallel]) or Try.sequence([a, b][, parallel])
HeldInit ==
    /\ \E a \in {Try_of(Const(Num(5))), Try_of(Throw(E1)), Try_of(Throw(Null)),
                  Try_failure(E1)},
          b \in {Try_success(Num(2)), Try_failure(E2)} :
            \E user \in
                {Chained(<<a, b>>, <<Step(op, Const(TryRef(1)), NoCb)>>)[3] :
                    op \in {"andThenTry", "andFinallyTry", "flatMap"}}
                \cup {Try_combine(<<1, 2>>, func, parallel) :
                        func \in CombineFuncs, parallel \in Parallel}
                \cup {Try_sequence(<<1, 2>>, parallel) : parallel \in Parallel} :
                tries = <<a, b, user>>
    /\ options = <<>>
    /\ tasks = <<>>
    /\ mul = 2
    /\ log = <<>>
    /\ lastOp = NoOp
    /\ bound = Bounds(3, 2, HeldCalls)

HeldNext ==
    \/ \E i \in 1..Len(tries), meth \in {"get", "run"} : Call(i, meth, NoCb)
    \/ \E i \in 1..Len(tries), query \in {"isSuccess", "isFailure", "getCause"} :
            Inspect(i, query)
    \/ \E t \in 1..Len(tasks) : RunStep(t)
    \/ \E t \in 1..Len(tasks) : AwaitInputs(t)
    \/ \E t \in 1..Len(tasks) : NextInput(t)
    \/ \E t \in 1..Len(tasks) : Resume(t)
    \/ \E t \in 1..Len(tasks) : Return(t)

HeldSpec == HeldInit /\ [][HeldNext]_vars

----------------------------------------------------------------------------
(* Option chains: const o = Option.of(value).<step>(...).<step>(...), and  *)
(* the caller executes o, asks o.isEmpty() / o.isDefined() and makes       *)
(* o.mapTry(mapper), each call awaited before the next.                    *)

OptionCalls == 2

\* Predicates that return true, return false and resolve to false; callbacks
\* that return and throw; nested Options with a value and, for
\* _ => Option.of(null), without one
OptionMenu ==
    {Step("map", f, NoCb) : f \in {MulOuter, Throw(E2)}}
    \cup {Step("filter", f, NoCb) :
                f \in {True, False, Resolve(Bool(FALSE)), Reject(E2)}}
    \cup {Step(op, f, NoCb) :
                op \in {"flatMap", "orElse"},
                f \in {SomeSeven, Const(FreshOption(<<Step("none", NoCb, NoCb)>>))}}
    \cup {Step(op, MulOuter, NoCb) : op \in {"peek", "onEmpty"}}

RECURSIVE OptionChained(_, _)
\* base.<c[1]>(...).<c[2]>(...)...: every instance made on the way
OptionChained(pool, c) ==
    IF c = <<>> THEN pool
    ELSE OptionChained(OptionCombinator(pool, Len(pool), Head(c)), Tail(c))

OptionInit ==
    /\ \E value \in {Num(5), Num(0), Bool(FALSE), Null, Undefined},
          c \in {<<>>} \cup {<<s>> : s \in OptionMenu}
                       \cup {<<s, u>> : s \in OptionMenu, u \in OptionMenu} :
            options = OptionChained(<<Option_of(value)>>, c)
    /\ tries = <<>>
    /\ tasks = <<>>
    /\ mul = 2
    /\ log = <<>>
    /\ lastOp = NoOp
    /\ bound = Bounds(Len(options) + 1, 3, OptionCalls)

OptionNext ==
    \/ \E meth \in {"get", "run"} : OptionCall(Len(options), meth, NoCb)
    \/ \E value \in {Plain(Num(4)), MulOuter} :
            OptionCall(Len(options), "getOrElse", value)
    \/ \E exceptionProvider \in {Const(E2)} :
            OptionCall(Len(options), "getOrElseThrow", exceptionProvider)
    \/ \E query \in {"isEmpty", "isDefined"} : OptionInspect(Len(options), query)
    \/ \E mapper \in {MulOuter, Throw(E2), Throw(Undefined)} :
            OptionMapTry(Len(options), mapper)
    \/ \E i \in 1..Len(tries) : Call(i, "get", NoCb)
    \/ \E t \in 1..Len(tasks) : AwaitGet(t)
    \/ \E t \in 1..Len(tasks) : ResumeMapper(t)
    \/ \E t \in 1..Len(tasks) : Return(t)
    \/ \E t \in 1..Len(tasks) : OptionRunStep(t)
    \/ \E t \in 1..Len(tasks) : OptionStore(t)
    \/ \E t \in 1..Len(tasks) : OptionReturn(t)

OptionSpec == OptionInit /\ [][OptionNext]_vars

----------------------------------------------------------------------------
(* Calls that are not awaited: one Try, and a caller that makes a second   *)
(* call on it while the first is running.                                  *)

RaceCalls == 3

RaceInit ==
    /\ \E base \in {Try_success(Num(2)), Try_failure(E1), Try_of(Resolve(Num(2)))},
          c \in {<<s>> : s \in {Step("map", MulOuter, NoCb),
                                Step("recover", Const(Num(9)), NoCb)}}
               \cup {<<Step("map", MulOuter, NoCb), s>> :
                        s \in {Step("map", MulOuter, NoCb),
                               Step("map", Throw(E2), NoCb)}} :
            tries = Chained(<<base>>, c)
    /\ options = <<>>
    /\ tasks = <<>>
    /\ mul = 2
    /\ log = <<>>
    /\ lastOp = NoOp
    /\ bound = Bounds(Len(tries), Len(tries), RaceCalls)

RaceNext ==
    \/ \E meth \in {"get", "getOrElseThrow"} :
            \E arg \in CallArgs(meth) : Call(Len(tries), meth, arg)
    \/ \E meth \in {"get", "getOrElseThrow"} :
            \E arg \in CallArgs(meth) : CallNow(Len(tries), meth, arg)
    \/ \E t \in 1..Len(tasks) : RunStep(t)
    \/ \E t \in 1..Len(tasks) : Return(t)

RaceSpec == RaceInit /\ [][RaceNext]_vars

----------------------------------------------------------------------------
(* Properties *)

\* The callbacks a step holds
CallbacksOf(step) ==
    IF step.op \in {"success", "failure", "none", "some", "sequence"} THEN 0
    ELSE (IF step.f = NoCb THEN 0 ELSE 1) + (IF step.g = NoCb THEN 0 ELSE 1)

\* The call that settled in this step, if one did
Settles == Len(log') = Len(log) + 1
Settling == log'[Len(log')]

\* C1: over any sequence of awaited calls of get, run, getOrElse,
\* getOrElseGet and getOrElseThrow on a Try, every step of the instance is
\* invoked at most once, and so is every callback of every step.
C1_ChainRunsAtMostOnce ==
    \A i \in 1..Len(tries) : \A k \in 1..Len(tries[i].steps) :
        /\ tries[i].stepRuns[k] <= 1
        /\ tries[i].cbRuns[k] <= CallbacksOf(tries[i].steps[k])

\* C2: two calls in a row of the same method among get, getOrElse,
\* getOrElseGet, getOrElseThrow on the same Try settle alike: both resolve
\* with the same value, or both reject with the same error.
C2_SameOutcomeTwice ==
    \A k \in 1..(Len(log) - 1) :
        /\ log[k].kind = "try"
        /\ log[k + 1].kind = "try"
        /\ log[k].inst = log[k + 1].inst
        /\ log[k].meth = log[k + 1].meth
        /\ log[k].arg = log[k + 1].arg
        /\ log[k].meth \in {"get", "getOrElse", "getOrElseGet", "getOrElseThrow"}
        => log[k].ok = log[k + 1].ok /\ log[k].v = log[k + 1].v

\* C3: when a call of an execution method on a Try has settled, the Try is
\* Computed (isComputed is true, finalResult is set); and a Computed Try
\* stays Computed with the finalResult it has.
C3_ComputedOnceAndForAll ==
    [][/\ Settles /\ Settling.kind = "try"
            => /\ tries'[Settling.inst].isComputed
               /\ tries'[Settling.inst].finalResult # <<>>
       /\ \A i \in 1..Len(tries) :
            tries[i].isComputed
            => /\ tries'[i].isComputed
               /\ tries'[i].finalResult = tries[i].finalResult]_vars

\* C10: a call of run() that settles resolves to the receiver when the
\* Result the instance holds is a success and rejects with the error of that
\* Result when it is a failure, be it the first call or a later one.
C10_RunRejectsEveryTime ==
    [][Settles /\ Settling.kind = "try" /\ Settling.meth = "run"
        => LET inst == tries'[Settling.inst]
           IN  /\ inst.finalResult # <<>>
               /\ IF isError(inst.finalResult[1])
                  THEN ~Settling.ok /\ Settling.v = getError(inst.finalResult[1])
                  ELSE Settling.ok /\ Settling.v = TryRef(Settling.inst)]_vars

\* The calls of get() on a Try that has one step, made by the factory op
GetsOf(op) ==
    {k \in 1..Len(log) :
        /\ log[k].kind = "try"
        /\ log[k].meth = "get"
        /\ Len(tries[log[k].inst].steps) = 1
        /\ tries[log[k].inst].steps[1].op = op}

\* C9: Try.success(x).get() resolves to x and isSuccess() is true
\* afterwards; Try.failure(e).get() rejects with e itself and isFailure() is
\* true afterwards (e an Error object).
C9_SuccessAndFailure ==
    /\ \A k \in GetsOf("success") :
            /\ log[k].ok
            /\ log[k].v = tries[log[k].inst].steps[1].f.v
            /\ isSuccess(tries[log[k].inst])
    /\ \A k \in GetsOf("failure") :
            /\ ~log[k].ok
            /\ log[k].v = tries[log[k].inst].steps[1].f.v
            /\ isFailure(tries[log[k].inst])

C9_Witness ==
    /\ \E k \in GetsOf("failure") : ~log[k].ok /\ log[k].v = CustomException(1)
    /\ tries[1].isComputed

\* C8: get() of Try.of(fn) rejects with what fn threw or rejected with, and
\* isFailure() is true afterwards; when fn returns or resolves to v, get()
\* resolves to v and isSuccess() is true afterwards.
C8_OfCapturesEveryThrowable ==
    \A k \in GetsOf("of") :
        LET inst == tries[log[k].inst]
            fn == inst.steps[1].f
        IN  IF fn.k \in {"throw", "reject"}
            THEN ~log[k].ok /\ log[k].v = fn.v /\ isFailure(inst)
            ELSE log[k].ok /\ log[k].v = fn.v /\ isSuccess(inst)

\* The combinators whose callback errors C7 speaks of
CapturingOps ==
    {"map", "mapIf", "flatMap", "flatMapIf", "filterNot", "filterTry",
     "andThen", "peek", "recover", "mapFailure"}

\* C7: when the callback of a map, mapIf, flatMap, flatMapIf, filterNot,
\* filterTry, andThen / peek, recover or mapFailure step throws or rejects,
\* the exception does not leave the step and the error slot holds it; the
\* steps that remain run next; and when the step was the last one, the call
\* of get() fills the cache, rejects with that very error, and isFailure()
\* is true.
C7_CallbackErrorIsCaptured ==
    [][lastOp.kind = "step" /\ lastOp.step.op \in CapturingOps /\ lastOp.raised # <<>>
        => /\ lastOp.esc = <<>>
           /\ getError(lastOp.after) = lastOp.raised[1]
           /\ IF Settles
              THEN /\ tries'[Settling.inst].isComputed
                   /\ ~Settling.ok
                   /\ Settling.v = lastOp.raised[1]
                   /\ isFailure(tries'[Settling.inst])
              ELSE lastOp'.kind = "step"]_vars

\* The combinators that pass a failure on
PassingOps ==
    {"map", "mapIf", "flatMap", "flatMapIf", "filterNot", "filterTry",
     "andThen", "peek", "andThenTry"}

\* C6: a map, mapIf, flatMap, flatMapIf, filterNot, filterTry, andThen /
\* peek or andThenTry step that is handed a Result in failure state hands it
\* on with both slots as they were and invokes none of its callbacks.
C6_FailurePassesThrough ==
    lastOp.kind = "step" /\ lastOp.step.op \in PassingOps /\ isError(lastOp.before)
        => lastOp.after = lastOp.before /\ lastOp.calls = 0

C6_Witness ==
    /\ lastOp.kind = "step"
    /\ lastOp.step.op = "mapIf"
    /\ lastOp.step.g = True
    /\ isError(lastOp.before)
    /\ lastOp.after = lastOp.before

\* An execution method on the instance is in flight
Executing(kind, i) ==
    \E t \in 1..Len(tasks) :
        tasks[t].kind = kind /\ tasks[t].inst = i /\ tasks[t].st # "done"

\* The invocation counts of the instances of pool did not change, and the
\* instances added have invoked nothing
NothingRan(pool, pool2) ==
    /\ \A i \in 1..Len(pool) :
            /\ pool2[i].stepRuns = pool[i].stepRuns
            /\ pool2[i].cbRuns = pool[i].cbRuns
    /\ \A i \in (Len(pool) + 1)..Len(pool2) :
            /\ pool2[i].stepRuns = Zeros(Len(pool2[i].steps))
            /\ pool2[i].cbRuns = Zeros(Len(pool2[i].steps))

\* The steps or callbacks of instance i of pool were invoked in this step
Ran(pool, pool2, i) ==
    pool2[i].stepRuns # pool[i].stepRuns \/ pool2[i].cbRuns # pool[i].cbRuns

\* C4: making a Try or an Option with a factory or a combinator invokes no
\* step and no callback (the outer variable the callbacks write stays as it
\* is); the steps and callbacks of an instance are invoked only while a call
\* of an execution method on it is in flight.
C4_OnlyExecutionRuns ==
    [][/\ Len(tries') > Len(tries) \/ Len(options') > Len(options)
            => /\ NothingRan(tries, tries')
               /\ NothingRan(options, options')
               /\ mul' = mul
       /\ \A i \in 1..Len(tries) : Ran(tries, tries', i) => Executing("try", i)
       /\ \A i \in 1..Len(options) :
            Ran(options, options', i) => Executing("option", i)]_vars

C4_Witness ==
    /\ lastOp.kind = "chain"
    /\ tries[lastOp.recv].cbRuns[1] = 1
    /\ tries[lastOp.inst].stepRuns = Zeros(Len(tries[lastOp.inst].steps))
    /\ mul = 2

\* C5: a combinator leaves every instance there is as it is, the receiver
\* included, and adds one instance: Pending, with the steps of the receiver
\* followed by the one new step.  It is so for Try and for Option, and
\* whether the receiver is Pending or Computed.
C5_CombinatorMakesNewPending ==
    [][/\ lastOp'.kind = "chain"
            => /\ Len(tries') = Len(tries) + 1
               /\ lastOp'.inst = Len(tries')
               /\ \A i \in 1..Len(tries) : tries'[i] = tries[i]
               /\ ~tries'[lastOp'.inst].isComputed
               /\ tries'[lastOp'.inst].finalResult = <<>>
               /\ tries'[lastOp'.inst].steps
                    = Append(tries[lastOp'.recv].steps, lastOp'.step)
               /\ options' = options
       /\ lastOp'.kind = "ochain"
            => /\ Len(options') = Len(options) + 1
               /\ lastOp'.inst = Len(options')
               /\ \A i \in 1..Len(options) : options'[i] = options[i]
               /\ options'[lastOp'.inst].finalResult = Undefined
               /\ options'[lastOp'.inst].steps
                    = Append(options[lastOp'.recv].steps, lastOp'.step)
               /\ tries' = tries]_vars

C5_Witness ==
    /\ lastOp.kind = "chain"
    /\ tries[lastOp.recv].isComputed
    /\ tries[lastOp.recv].finalResult # <<>>
    /\ ~tries[lastOp.inst].isComputed
    /\ Len(tries[lastOp.inst].steps) = Len(tries[lastOp.recv].steps) + 1

\* C11: a recover step handed a failure with error e invokes fn once; when
\* fn returns, the value slot holds what fn(e) returned and the error slot
\* is empty; when fn throws or rejects, the Result is a failure holding what
\* fn raised.  Handed a success, the step hands it on as it was and does not
\* invoke fn.
C11_RecoverRepairsFailure ==
    lastOp.kind = "step" /\ lastOp.step.op = "recover"
        => IF ~isError(lastOp.before)
           THEN lastOp.after = lastOp.before /\ lastOp.calls = 0
           ELSE /\ lastOp.calls = 1
                /\ IF lastOp.raised = <<>>
                   THEN /\ lastOp.step.f.k = "const"
                            => getValue(lastOp.after) = lastOp.step.f.v
                        /\ lastOp.step.f.k = "args"
                            => getValue(lastOp.after) = getError(lastOp.before)
                        /\ getError(lastOp.after) = Undefined
                   ELSE /\ isError(lastOp.after)
                        /\ getError(lastOp.after) = lastOp.raised[1]

\* The Result that the steps of the Try which the callback cb returns end in
NestedOutcome(cb) == runSteps(cb.v.steps, 2).res

\* C12: a recoverWith step handed a success hands it on as it was and does
\* not invoke fn.  Handed a failure it invokes fn once and, fn having
\* returned a Try, the Result it hands on is a success with the value of
\* that Try and an empty error slot when that Try succeeds, and a failure
\* with the error of that Try when it fails.
C12_RecoverWithAdoptsNested ==
    lastOp.kind = "step" /\ lastOp.step.op = "recoverWith"
        => IF ~isError(lastOp.before)
           THEN lastOp.after = lastOp.before /\ lastOp.calls = 0
           ELSE /\ lastOp.calls = 1
                /\ lastOp.raised = <<>> =>
                     IF isError(NestedOutcome(lastOp.step.f))
                     THEN /\ isError(lastOp.after)
                          /\ getError(lastOp.after)
                                = getError(NestedOutcome(lastOp.step.f))
                     ELSE /\ getValue(lastOp.after)
                                = getValue(NestedOutcome(lastOp.step.f))
                          /\ getError(lastOp.after) = Undefined

\* Try.failure(e).recoverWith(_ => Try.failure(e2).recover(_ => 9)) has run
C12_Witness ==
    /\ lastOp.kind = "step"
    /\ lastOp.step.op = "recoverWith"
    /\ lastOp.step.f = RecoveredTry
    /\ getError(lastOp.before) = E1
    /\ lastOp.after = setValue(NewResult, Num(9))

FinallyOps == {"andFinally", "andFinallyTry"}

\* C13: an andFinally or andFinallyTry step invokes fn once, on a success
\* and on a failure, and a call of get() that settles has invoked the fn of
\* each such step of the chain exactly once.  When fn raises x, or the Try
\* it returns fails with x, the Result handed on is a failure with error x;
\* otherwise it is handed on with both slots as they were.
C13_FinallyRunsOnceOnBothPaths ==
    [][/\ lastOp'.kind = "step" /\ lastOp'.step.op \in FinallyOps
            => /\ lastOp'.calls = 1
               /\ IF lastOp'.raised # <<>>
                  THEN /\ isError(lastOp'.after)
                       /\ getError(lastOp'.after) = lastOp'.raised[1]
                  ELSE IF /\ lastOp'.step.op = "andFinallyTry"
                          /\ isError(NestedOutcome(lastOp'.step.f))
                  THEN /\ isError(lastOp'.after)
                       /\ getError(lastOp'.after)
                            = getError(NestedOutcome(lastOp'.step.f))
                  ELSE lastOp'.after = lastOp'.before
       /\ Settles =>
            \A k \in 1..Len(tries[Settling.inst].steps) :
                tries[Settling.inst].steps[k].op \in FinallyOps
                    => tries'[Settling.inst].cbRuns[k] = 1]_vars

\* C14: an andThenTry step handed a success, whose fn returns a Try, leaves
\* that Try executed; when the outcome of that Try is a failure, whether
\* this step has executed it or it had been executed before, the Result
\* handed on is a failure with the error of that Try, and when it is a
\* success the Result is handed on as it was.
C14_AndThenTryTakesNestedFailure ==
    [][(/\ lastOp'.kind = "step"
        /\ lastOp'.step.op = "andThenTry"
        /\ ~isError(lastOp'.before)
        /\ lastOp'.raised = <<>>
        /\ lastOp'.step.f.v.n > 0)
        => LET inner == tries'[lastOp'.step.f.v.n]
           IN  /\ inner.isComputed
               /\ IF isFailure(inner)
                  THEN /\ isError(lastOp'.after)
                       /\ getError(lastOp'.after) = getCause(inner)
                  ELSE lastOp'.after = lastOp'.before]_vars

\* The predicate of the filterNot or filterTry step has returned, and the
\* Try it returned to filterTry has succeeded
PredicateYields(op) ==
    /\ op.raised = <<>>
    /\ op.step.g.k = "const"
    /\ op.step.op = "filterTry" => ~isError(NestedOutcome(op.step.g))

\* The step is to fail the Try: the Try<boolean> of filterTry yields true,
\* the predicate of filterNot returns false
Filtered(op) ==
    IF op.step.op = "filterTry"
    THEN ~Falsy(getValue(NestedOutcome(op.step.g)))
    ELSE Falsy(op.step.g.v)

InputsSucceeded(pool, step) ==
    \A k \in 1..Len(step.ins) :
        pool[step.ins[k]].isComputed /\ isSuccess(pool[step.ins[k]])

\* The values of the inputs of the step, in input order
InputValues(pool, step) ==
    [k \in 1..Len(step.ins) |-> getValue(pool[step.ins[k]].finalResult[1])]

\* C17: when a call of get() on Try.combine(t1, .., tn, fn) settles, every
\* input being a success and fn = (...values) => values, the call resolves
\* with [v1, .., vn], vi the value of ti, and the Try is a success with that
\* value: with parallel true, false or omitted, and whatever the order in
\* which the inputs have completed.
C17_CombineAppliesInInputOrder ==
    [][(/\ Settles
        /\ Settling.meth = "get"
        /\ tries[Settling.inst].steps[1].op = "combine"
        /\ tries[Settling.inst].steps[1].f = Args
        /\ InputsSucceeded(tries', tries[Settling.inst].steps[1]))
        => /\ Settling.ok
           /\ Settling.v = Arr(InputValues(tries', tries[Settling.inst].steps[1]))
           /\ tries'[Settling.inst].isComputed
           /\ isSuccess(tries'[Settling.inst])
           /\ getValue(tries'[Settling.inst].finalResult[1]) = Settling.v]_vars

\* Try.combine(Try.of(() => 5), Try.success(2), fn) in parallel mode has
\* resolved with [5, 2]
C17_Witness ==
    /\ Len(tries) = 3
    /\ tries[3].steps[1].op = "combine"
    /\ tries[3].steps[1].par
    /\ log # <<>>
    /\ log[Len(log)].inst = 3
    /\ log[Len(log)].ok
    /\ log[Len(log)].v = Arr(<<Num(5), Num(2)>>)

\* The combine / sequence step that frame t of ts is in
AwaitedStep(ts, pool, t) == pool[ts[t].inst].steps[ts[t].pc]

\* v.get() on input k of the step frame t awaits has been called
Started(ts, t, k) ==
    \/ ts[t].kids[k].st # "pend"
    \/ \E c \in 1..Len(ts) :
            ts[c].st # "done" /\ ts[c].parent = t /\ ts[c].slot = k

\* get() is called on an input only when the call on every input before it
\* has resolved
InInputOrder(ts, t) ==
    \A k \in 1..Len(ts[t].kids) :
        Started(ts, t, k) => \A j \in 1..(k - 1) : ts[t].kids[j].st = "ok"

\* The first input whose get() has rejected
FirstFailed(f) ==
    CHOOSE i \in 1..Len(f.kids) :
        f.kids[i].st = "err" /\ \A j \in 1..(i - 1) : f.kids[j].st # "err"

\* C18: a combine or sequence step made with parallel = false calls get()
\* on its inputs one at a time in input order, each when the one before has
\* resolved.  When the step goes on after input i has been the first to
\* fail, it hands on a failure with the error of input i, get() has been
\* called on no input after i, and it has invoked no callback.
C18_SequentialStopsAtFirstFailure ==
    [][/\ \A t \in 1..Len(tasks') :
            tasks'[t].st = "wait" /\ ~AwaitedStep(tasks', tries', t).par
                => InInputOrder(tasks', t)
       /\ \A t \in 1..Len(tasks) :
            (/\ tasks[t].st = "wait"
             /\ ~AwaitedStep(tasks, tries, t).par
             /\ tasks[t].rej # <<>>
             /\ t > Len(tasks') \/ tasks'[t].st # "wait")
                => LET i == FirstFailed(tasks[t])
                       input == tries[AwaitedStep(tasks, tries, t).ins[i]]
                   IN  /\ isFailure(input)
                       /\ isError(lastOp'.after)
                       /\ getError(lastOp'.after) = getCause(input)
                       /\ lastOp'.calls = 0
                       /\ \A k \in (i + 1)..Len(tasks[t].kids) :
                                tasks[t].kids[k] = Pend]_vars

\* Try.sequence([a, b], false) with a failing: the step has gone on with the
\* error of a, b still Pending
C18_Witness ==
    /\ Len(tries) = 3
    /\ lastOp.kind = "step"
    /\ lastOp.step.op = "sequence"
    /\ ~lastOp.step.par
    /\ tries[1].isComputed
    /\ getError(lastOp.after) = getCause(tries[1])
    /\ ~tries[2].isComputed

\* C19: a Try made by Try.sequence(tries), no parallel argument given, calls
\* get() on an input only when the call on every input before it has
\* resolved: no input is started before the one before it has completed.
C19_SequenceDefaultsToSequential ==
    \A t \in 1..Len(tasks) :
        (/\ tasks[t].st = "wait"
         /\ tries[tasks[t].inst].steps
                = Try_sequence(AwaitedStep(tasks, tries, t).ins, "omitted").steps)
            => InInputOrder(tasks, t)

----------------------------------------------------------------------------
(* Option: execution methods and queries *)

NoValuePresent == NoSuchElementException("No value present", Undefined)

\* The caller's call of <meth> on an Option, frame t, settles in this step:
\* runSteps is over and the method returns or throws
SettlesOption(t, meth) ==
    /\ tasks[t].kind = "option"
    /\ tasks[t].st = "stored"
    /\ tasks[t].parent = 0
    /\ tasks[t].meth = meth
    /\ Len(log') = Len(log) + 1

\* C21: get() of an Option rejects with NoSuchElementException "No value
\* present" exactly when the value of the Result the last step returned is
\* null or undefined; Option.of(v).get() resolves to v for a non-nullish v
\* and rejects with that exception for null and undefined.
C21_GetRejectsExactlyOnNullish ==
    [][\A t \in 1..Len(tasks) :
        SettlesOption(t, "get") =>
            LET e == log'[Len(log')]
                final == getValue(tasks[t].res)
                steps == options[tasks[t].inst].steps
            IN  /\ IsNullish(final) <=> (~e.ok /\ e.v = NoValuePresent)
                /\ (Len(steps) = 1 /\ steps[1].op = "some")
                        => (e.ok /\ e.v = steps[1].f.v)
                /\ (Len(steps) = 1 /\ steps[1].op = "none")
                        => (~e.ok /\ e.v = NoValuePresent)]_vars

\* C22: only null and undefined count as empty in an Option chain.  On any
\* other carried value, 0 and false included, map, peek and flatMap invoke
\* their callback and onEmpty and orElse do not; on null and undefined it is
\* the other way round.
C22_OnlyNullishIsEmpty ==
    lastOp.kind = "ostep" =>
        LET empty == IsNullish(getValue(lastOp.before))
        IN  /\ lastOp.step.op \in {"map", "peek", "flatMap"}
                    => lastOp.calls = (IF empty THEN 0 ELSE 1)
            /\ lastOp.step.op \in {"onEmpty", "orElse"}
                    => lastOp.calls = (IF empty THEN 1 ELSE 0)

\* C23: a filter step on an empty Option (null or undefined) hands it on
\* without calling the predicate; on a value for which the predicate
\* returns or resolves to false it clears the value, and on one for which
\* the predicate is true it keeps the value.  The falsy values 0 and false
\* are the case of C22 and are left out here.
C23_FilterKeepsWhatMatches ==
    (/\ lastOp.kind = "ostep"
     /\ lastOp.step.op = "filter"
     /\ IsNullish(getValue(lastOp.before)) \/ ~Falsy(getValue(lastOp.before))) =>
        LET value == getValue(lastOp.before)
            holds == ~Falsy(CallCb(lastOp.step.f, value, 2).v)
        IN  IF IsNullish(value)
            THEN lastOp.calls = 0 /\ lastOp.after = lastOp.before
            ELSE /\ lastOp.calls = 1
                 /\ holds => getValue(lastOp.after) = value
                 /\ ~holds => IsNullish(getValue(lastOp.after))

\* C24: a flatMap or orElse step that has called its callback hands on the
\* value the nested or alternative Option resolves to: that value itself
\* when the Option holds one, and an empty (null or undefined) value when
\* that Option is empty.
C24_NestedOptionIsAdopted ==
    (/\ lastOp.kind = "ostep"
     /\ lastOp.step.op \in {"flatMap", "orElse"}
     /\ lastOp.calls = 1
     /\ lastOp.raised = <<>>) =>
        LET nested == lastOp.step.f.v.steps[1]
            carried == getValue(lastOp.after)
        IN  IF nested.op = "some"
            THEN carried = nested.f.v
            ELSE IsNullish(carried)

\* The executions of options[i] that have settled: the caller's calls of
\* its execution methods and the this.get() of its mapTry Trys
Executions(i) ==
    Cardinality({k \in 1..Len(log) : log[k].kind = "option" /\ log[k].inst = i})
    + Cardinality({k \in 1..Len(tries) :
            /\ tries[k].steps[1].f.k = "mapTry"
            /\ tries[k].steps[1].f.opt = i
            /\ tries[k].stepRuns[1] = 1})

\* The steps before step j of options[i] let no exception out
NoThrowBefore(i, j) == \A k \in 1..(j - 1) : options[i].steps[k].f.k # "throw"

\* C25: an Option does not memoize.  When every call has settled, each step
\* of an instance has been invoked once per execution of the instance (once
\* per execution at most behind a step that throws) and has called its
\* callback at most once per invocation; and when the loop of an execution
\* ends, finalResult is the value of the Result of that execution.
C25_OptionRunsEveryCall ==
    /\ \A t \in 1..Len(tasks) :
            (tasks[t].kind = "option" /\ tasks[t].st = "stored")
                => options[tasks[t].inst].finalResult = getValue(tasks[t].res)
    /\ tasks = <<>> =>
            \A i \in 1..Len(options) : \A j \in 1..Len(options[i].steps) :
                /\ options[i].stepRuns[j] <= Executions(i)
                /\ NoThrowBefore(i, j) => options[i].stepRuns[j] = Executions(i)
                /\ options[i].cbRuns[j] <= options[i].stepRuns[j]

\* Two executions of a chain of three steps have settled, the second with
\* another final value than the first, and the callbacks ran in both
C25_Witness ==
    /\ tasks = <<>>
    /\ \E i \in 1..Len(options) :
            /\ options[i].stepRuns = <<2, 2, 2>>
            /\ options[i].cbRuns = <<0, 2, 2>>
            /\ Len(log) = 2
            /\ log[1].inst = i /\ log[2].inst = i
            /\ log[1].ok /\ log[2].ok
            /\ log[1].meth = "get" /\ log[2].meth = "get"
            /\ log[1].v # log[2].v

\* C26: isEmpty() and isDefined() run no step and change nothing: isEmpty()
\* returns whether the stored final value is null or undefined and
\* isDefined() the negation.  The stored final value changes only when the
\* loop of an execution of that instance ends, and it becomes the value of
\* the Result that execution ended with; so after an execution the queries
\* report the outcome of the most recent one.
C26_QueriesReportLastExecution ==
    [][/\ lastOp'.kind = "oquery" =>
            /\ options' = options /\ tasks' = tasks /\ mul' = mul /\ log' = log
            /\ lastOp'.meth = "isEmpty" =>
                lastOp'.out = <<Bool(IsNullish(options[lastOp'.inst].finalResult))>>
            /\ lastOp'.meth = "isDefined" =>
                lastOp'.out = <<Bool(~IsNullish(options[lastOp'.inst].finalResult))>>
       /\ \A i \in 1..Len(options) :
            options'[i].finalResult # options[i].finalResult =>
                \E t \in 1..Len(tasks) :
                    /\ tasks[t].kind = "option" /\ tasks[t].inst = i
                    /\ tasks[t].st = "run" /\ tasks'[t].st = "stored"
                    /\ options'[i].finalResult = getValue(tasks[t].res)]_vars

\* After a run() that ended with the value 0, isEmpty() has returned false
C26_Witness ==
    /\ lastOp.kind = "oquery"
    /\ lastOp.meth = "isEmpty"
    /\ lastOp.out = <<Bool(FALSE)>>
    /\ options[lastOp.inst].finalResult = Num(0)
    /\ Len(log) = 1
    /\ log[1].meth = "run"

\* C27: on an Option just made by Option.of(v), with no execution method
\* called yet, isDefined() is true when v is neither null nor undefined, and
\* isEmpty() is true when v is null or undefined.
C27_QueriesRightAfterConstruction ==
    (/\ lastOp.kind = "oquery"
     /\ Len(options[lastOp.inst].steps) = 1
     /\ options[lastOp.inst].stepRuns = <<0>>) =>
        LET made == options[lastOp.inst].steps[1].op
        IN  /\ (made = "some" /\ lastOp.meth = "isDefined")
                    => lastOp.out = <<Bool(TRUE)>>
            /\ (made = "none" /\ lastOp.meth = "isEmpty")
                    => lastOp.out = <<Bool(TRUE)>>

\* C28: getOrElse(x) on a chain whose final value is neither null nor
\* undefined returns that value and does not invoke x; on an empty chain it
\* returns x, or calls x once and returns x() when x is a function.
\* getOrElseThrow(errFn) returns the value without calling errFn on a
\* non-empty chain and rejects with errFn() on an empty one.  A value
\* returned from the async method settles the call as await does.
C28_FallbackOnlyWhenEmpty ==
    [][\A t \in 1..Len(tasks) :
        (SettlesOption(t, "getOrElse") \/ SettlesOption(t, "getOrElseThrow")) =>
            LET e == log'[Len(log')]
                final == getValue(tasks[t].res)
                x == tasks[t].arg
            IN  IF ~IsNullish(final)
                THEN /\ e.ok = Await(final).ok /\ e.v = Await(final).v
                     /\ e.calls = 0
                     /\ mul' = mul
                ELSE IF tasks[t].meth = "getOrElseThrow"
                THEN ~e.ok /\ e.v = CallRaw(x, Undefined, mul).v /\ e.calls = 1
                ELSE IF x.k = "value"
                THEN e.ok /\ e.v = x.v /\ e.calls = 0
                ELSE /\ e.ok /\ e.v = CallCb(x, Undefined, mul).v /\ e.calls = 1
                     /\ mul' = CallCb(x, Undefined, mul).mul]_vars

\* On an empty chain getOrElse(fn) has called fn once and returned what it
\* returned, and getOrElseThrow(errFn) has rejected with errFn()
C28_Witness ==
    /\ Len(log) = 2
    /\ log[1].meth = "getOrElse" /\ log[1].arg = MulOuter
    /\ log[1].ok /\ log[1].v = NaN /\ log[1].calls = 1
    /\ log[2].meth = "getOrElseThrow" /\ ~log[2].ok /\ log[2].v = E2
    /\ log[2].calls = 1
    /\ mul = 3

\* On the value 0 getOrElse(fn) has returned 0 without calling fn
C28_ValueKept ==
    /\ Len(log) = 1
    /\ log[1].meth = "getOrElse" /\ log[1].arg = MulOuter
    /\ log[1].ok /\ log[1].v = Num(0) /\ log[1].calls = 0
    /\ mul = 2

\* C29: mapTry(fn) makes a Try without running anything.  When the Try is
\* executed and this.get() of the Option resolves to v, the Try is a success
\* with fn(v), or a failure with the error fn threw; when this.get() rejects
\* (NoSuchElementException "No value present" on an empty Option), the Try
\* is a failure with that exception.
C29_MapTryCapturesIntoTry ==
    [][/\ Len(tries') > Len(tries) =>
            /\ options' = options
            /\ ~tries'[Len(tries')].isComputed
            /\ tries'[Len(tries')].stepRuns = <<0>>
       /\ \A t \in 1..Len(tasks) :
            (/\ tasks[t].st = "wait"
             /\ tries[tasks[t].inst].steps[tasks[t].pc].f.k = "mapTry"
             /\ tasks'[t].st = "run") =>
                LET kid == tasks[t].kids[1]
                    fn == tries[tasks[t].inst].steps[tasks[t].pc].f.g
                    r == tasks'[t].res
                    c == CallCb(fn, kid.v, mul)
                IN  IF kid.st = "err"
                    THEN isError(r) /\ getError(r) = kid.v
                    ELSE IF c.ok
                    THEN ~isError(r) /\ getValue(r) = c.v
                    ELSE isError(r) /\ getError(r) = c.v]_vars

----------------------------------------------------------------------------
(* The runner *)

\* The steps of the instance that frame f executes
StepsOf(f) == IF f.kind = "option" THEN options[f.inst].steps ELSE tries[f.inst].steps

\* Frame t is gone in the next state: its call has settled
Gone(t) == t > Len(tasks') \/ tasks'[t].st = "done"

\* C30: within one execution the runner invokes the steps in list order, one
\* at a time.  The first step is given a new, empty Result; a frame moves
\* from step i to step i + 1 only, in the action in which step i hands its
\* Result back, step i having been given the Result the frame held; the
\* frame's Result changes in no other action; and the execution ends behind
\* the last step, the Result of the last step being what is stored.
C30_StepsRunInOrder ==
    [][\A t \in 1..Len(tasks) :
        LET f == tasks[t]
        IN  f.kind \in {"try", "option"} =>
            /\ (f.pc = 1 /\ f.st = "run") => f.res = NewResult
            /\ (~Gone(t) /\ tasks'[t].pc # f.pc) =>
                    /\ tasks'[t].pc = f.pc + 1
                    /\ lastOp'.kind = (IF f.kind = "try" THEN "step" ELSE "ostep")
                    /\ lastOp'.inst = f.inst
                    /\ lastOp'.step = StepsOf(f)[f.pc]
                    /\ lastOp'.before = f.res
                    /\ tasks'[t].res = lastOp'.after
            /\ (~Gone(t) /\ tasks'[t].res # f.res) => tasks'[t].pc = f.pc + 1
            /\ (f.kind = "option" /\ ~Gone(t) /\ tasks'[t].st = "stored" /\ f.st = "run") =>
                    /\ f.pc = Len(StepsOf(f)) + 1
                    /\ options'[f.inst].finalResult = getValue(f.res)
            /\ (f.kind = "try" /\ Gone(t) /\ lastOp'.kind # "step") =>
                    /\ f.pc = Len(StepsOf(f)) + 1
                    /\ tries'[f.inst].finalResult = <<f.res>>]_vars

\* A Try made by mapTry has been executed to the end, and with it the three
\* steps of its Option, whose two callbacks were called
C30_Witness ==
    /\ tasks = <<>>
    /\ \E i \in 1..Len(tries) : tries[i].stepRuns = <<1>> /\ tries[i].isComputed
    /\ \E i \in 1..Len(options) :
            options[i].stepRuns = <<1, 1, 1>> /\ options[i].cbRuns = <<0, 1, 1>>

----------------------------------------------------------------------------
(* Escapes, observers and sharing *)

\* C32: an exception of the combining function of Try.combine is captured
\* by the step: nothing escapes, the Result the step hands back is a failure
\* carrying the exception, and the instance is Computed with that failure
\* once the call has settled.
C32_CombineCapturesFnError ==
    [][(/\ lastOp'.kind = "step"
        /\ lastOp'.step.op = "combine"
        /\ lastOp'.raised # <<>>) =>
            /\ lastOp'.esc = <<>>
            /\ isError(lastOp'.after)
            /\ getError(lastOp'.after) = lastOp'.raised[1]
            /\ Len(log') = Len(log)]_vars

\* C34: an onFailure step only observes.  On a success it does not call fn
\* and hands the Result on as it is; on a failure it calls fn once and the
\* Result it hands on carries the same error and the same value as before.
C34_OnFailureOnlyObserves ==
    (lastOp.kind = "step" /\ lastOp.step.op = "onFailure") =>
        /\ lastOp.calls = (IF isError(lastOp.before) THEN 1 ELSE 0)
        /\ lastOp.after = lastOp.before

\* C38: a mapFailure step never turns a failure into a success.  A success
\* is handed on untouched and fn is not called; on a failure fn is called
\* once and the Result handed on is a failure, carrying what fn returned or
\* the error fn threw.  A nullish value thrown by fn is the case of C7 and
\* is left out here.
C38_MapFailureKeepsFailure ==
    (/\ lastOp.kind = "step"
     /\ lastOp.step.op = "mapFailure"
     /\ lastOp.raised = <<>> \/ ~IsNullish(lastOp.raised[1])) =>
        IF ~isError(lastOp.before)
        THEN lastOp.calls = 0 /\ lastOp.after = lastOp.before
        ELSE /\ lastOp.calls = 1
             /\ isError(lastOp.after)
             /\ getValue(lastOp.after) = getValue(lastOp.before)
             /\ getError(lastOp.after) =
                    (IF lastOp.raised # <<>>
                     THEN lastOp.raised[1]
                     ELSE CallCb(lastOp.step.f, getError(lastOp.before), 2).v)

----------------------------------------------------------------------------
(* The Result carrier *)

\* The Results of the state: what the frames hold, what the last step was
\* given and handed back, and what the instances have stored
ResultsHeld ==
    {tasks[t].res : t \in 1..Len(tasks)}
    \cup {lastOp.before, lastOp.after}
    \cup {tries[i].finalResult[1] : i \in {j \in 1..Len(tries) : tries[j].isComputed}}

\* C39: on every Result the steps have built with setValue and setError,
\* isError() and hasvalue() are negations of each other, isError() is true
\* exactly when the error slot holds something other than null and
\* undefined, a further setValue leaves the error slot alone and a further
\* setError leaves the value slot alone.
C39_ResultSlotsAreIndependent ==
    \A r \in ResultsHeld :
        /\ isError(r) = ~hasvalue(r)
        /\ isError(r) = (getError(r) # Null /\ getError(r) # Undefined)
        /\ \A x \in {Undefined, Null, Num(0), Num(7), E2} :
            /\ getError(setValue(r, x)) = getError(r)
            /\ getValue(setValue(r, x)) = x
            /\ getValue(setError(r, x)) = getValue(r)
            /\ getError(setError(r, x)) = x
            /\ isError(setError(r, x)) = ~hasvalue(setError(r, x))
            /\ isError(setError(r, x)) = (x # Null /\ x # Undefined)

\* A step was given a Result with an empty error slot and has handed back
\* one with both slots filled
C39_Witness ==
    /\ lastOp.kind = "step"
    /\ getValue(lastOp.after) = Num(2)
    /\ getError(lastOp.after) = E2
    /\ getError(lastOp.before) = Undefined

----------------------------------------------------------------------------
(* Executions that overlap *)

\* The executions of tries[i] in flight that the step of frame t has started
RunsFor(t, i) ==
    {c \in 1..Len(tasks) :
        tasks[c].kind = "try" /\ tasks[c].parent = t /\ tasks[c].inst = i
        /\ tasks[c].st # "done"}

\* C37: while a combine / sequence step awaits its inputs, at most one
\* execution of each input instance is in flight for it, also when the
\* instance occurs twice in the input list; an input executed for an earlier
\* position answers the later position from its cache.
C37_InputRunsAtMostOnce ==
    \A t \in 1..Len(tasks) :
        tasks[t].st = "wait" =>
            \A i \in 1..Len(tries) : Cardinality(RunsFor(t, i)) <= 1


\* C35: Option.peek and Option.onEmpty hand on the Result they were given,
\* value and error as they were, and on every incoming Result exactly one of
\* the two calls its callback: peek when the value is truthy (what the step
\* takes as present), onEmpty when it is falsy (what the step takes as empty).
C35_PeekAndOnEmptyComplement ==
    (lastOp.kind = "ostep" /\ lastOp.step.op \in {"peek", "onEmpty"}) =>
        /\ lastOp.after = lastOp.before
        /\ peek(lastOp.before, lastOp.step.f, mul).calls
             + onEmpty(lastOp.before, lastOp.step.f, mul).calls = 1
        /\ lastOp.calls =
             (IF (lastOp.step.op = "peek") = Falsy(getValue(lastOp.before))
              THEN 0 ELSE 1)

\* onEmpty has met the value 0, which is not null, and has called its callback
C35_Witness ==
    /\ lastOp.kind = "ostep"
    /\ lastOp.step.op = "onEmpty"
    /\ getValue(lastOp.before) = Num(0)
    /\ lastOp.calls = 1

\* C33: when the callback of filter, map, flatMap, peek or onEmpty is called
\* and throws, or hands back a promise that rejects, the step captures
\* nothing: the error leaves the step, the execution method's promise rejects
\* with it in the same step (for the get() that mapTry awaits, the awaiting
\* execution receives the rejection), and the step was the last one of that
\* call.
C33_OptionCallbackErrorRejectsCall ==
    [][(/\ lastOp'.kind = "ostep"
        /\ lastOp'.step.op \in {"filter", "map", "flatMap", "peek", "onEmpty"}
        /\ lastOp'.step.f.k \in {"throw", "reject"}
        /\ ~Falsy(getValue(lastOp'.before)) = (lastOp'.step.op # "onEmpty"))
       => /\ lastOp'.esc = <<lastOp'.step.f.v>>
          /\ \/ /\ Len(log') = Len(log) + 1
                /\ ~log'[Len(log')].ok
                /\ log'[Len(log')].v = lastOp'.step.f.v
             \/ \E t \in 1..Len(tasks) : \E k \in 1..Len(tasks[t].kids) :
                    /\ tasks[t].kids[k].st # "err"
                    /\ tasks'[t].kids[k] = [v |-> lastOp'.step.f.v, st |-> "err"]]_vars

\* The instances that have an execution in flight that has run all its steps
Finishing == {tasks[t].inst : t \in {u \in 1..Len(tasks) :
                 /\ tasks[u].kind = "try"
                 /\ tasks[u].st = "run"
                 /\ tasks[u].pc > Len(tries[tasks[u].inst].steps)}}

\* C36: the cache of an instance is written by an execution of that instance
\* only: executing a Try made from a parent by combinators leaves the parent
\* Pending with finalResult unset, and the steps counted on an instance are
\* those its own executions ran, so an instance that is Computed has run each
\* of its steps itself, the steps it shares with a parent or a child included.
C36_DerivedExecutionLeavesParent ==
    [][\A i \in 1..Len(tries) :
          /\ (\/ tries'[i].isComputed # tries[i].isComputed
              \/ tries'[i].finalResult # tries[i].finalResult) => i \in Finishing
          /\ tries'[i].isComputed =>
                \A k \in 1..Len(tries'[i].steps) : tries'[i].stepRuns[k] >= 1]_vars

\* tries[2] = tries[1].map(f) was executed first, tries[1] after it: both are
\* Computed and the callback of the shared first step has run once for each
C36_Witness ==
    /\ Len(tries) = 2
    /\ Len(log) = 2
    /\ log[1].inst = 2
    /\ log[2].inst = 1
    /\ tries[1].steps = <<Step("of", Const(Num(5)), NoCb)>>
    /\ tries[2].steps = <<Step("of", Const(Num(5)), NoCb), Step("map", MulOuter, NoCb)>>
    /\ tries[1].isComputed /\ tries[2].isComputed
    /\ tries[1].cbRuns = <<1>>
    /\ tries[2].cbRuns = <<1, 1>>

\* The frames whose execution settles its call in this step, all its steps run
Finished(t) ==
    /\ tasks[t].kind = "try"
    /\ tasks[t].st = "run"
    /\ tasks[t].pc > Len(tries[tasks[t].inst].steps)
    /\ Len(log') = Len(log) + 1
    /\ (t > Len(tasks') \/ tasks'[t].st = "done")

\* C31: a call made on a Pending Try while another call on it is running is
\* not held back and not served by the running one: it starts an execution of
\* its own at the first step, from a new Result.  Every execution that comes
\* to its end writes its Result into the cache, so the cache is always that
\* of the call that settled last: get resolves or rejects with what the cache
\* then holds.
C31_OverlappingCallsBothRun ==
    [][/\ (lastOp'.kind = "call" /\ ~tries[lastOp'.inst].isComputed) =>
            /\ Len(tasks') = Len(tasks) + 1
            /\ tasks'[Len(tasks')].inst = lastOp'.inst
            /\ tasks'[Len(tasks')].pc = 1
            /\ tasks'[Len(tasks')].res = NewResult
            /\ log' = log
            /\ tries' = tries
       /\ \A t \in 1..Len(tasks) : Finished(t) =>
            /\ tries'[tasks[t].inst].isComputed
            /\ tries'[tasks[t].inst].finalResult = <<tasks[t].res>>
       /\ log' # <<>> =>
            LET last == log'[Len(log')]
                cache == tries'[last.inst].finalResult[1]
            IN  /\ tries'[last.inst].isComputed
                /\ last.ok = ~isError(cache)
                /\ last.ok => last.v = getValue(cache)
                /\ (~last.ok /\ last.meth = "get") => last.v = getError(cache)]_vars

\* success(2).map(v => v * multiplier, multiplier = 3): two get() overlapped,
\* each step ran twice; the call that ran map second (6) settled first, the
\* one that ran it first (4) settled last and its Result is in the cache
C31_Witness ==
    /\ tasks = <<>>
    /\ Len(log) = 2
    /\ tries[Len(tries)].stepRuns = <<2, 2>>
    /\ tries[Len(tries)].cbRuns = <<0, 2>>
    /\ log[1].ok /\ log[1].v = Num(6)
    /\ log[2].ok /\ log[2].v = Num(4)
    /\ getValue(tries[Len(tries)].finalResult[1]) = Num(4)
====
